---- MODULE Spec2Model ----
(***************************************************************************)
(* State-machine model of the wait-capable MPMC message-passing fabric:    *)
(* the ticket-ring queue (wh/core/mpmc_queue.hpp, bounded and growable),   *)
(* the sender-notify registry (wh/sync/sender_notify.hpp) and the channel  *)
(* (wh/sync/channel.hpp).                                                  *)
(*                                                                         *)
(* Every thread is a call stack th[t] of frames; a frame is a record with  *)
(* the function it executes (fn), its position (pc) and its locals.  One   *)
(* step of a thread executes the code of its top frame up to and including *)
(* its next access to shared memory; all atomics are read and written in   *)
(* one total order (sequential consistency), except where a step says      *)
(* otherwise.                                                              *)
(***************************************************************************)
EXTENDS Integers, Sequences, FiniteSets, Bags, TLC

(***************************************************************************)
(* Bounds of the model.                                                    *)
(***************************************************************************)
\* capacity of the bounded queue
Capacity == 1
\* values each producer thread pushes
ValuesPerProducer == 1
\* capacity of the queue of the sequential scenario, and the calls it makes
SeqCapacity == 2
SeqCalls == 9

(***************************************************************************)
(* Program constants.                                                      *)
(***************************************************************************)
wait_channel_count_ == 1024
min_probe_window_ == 8
max_probe_window_ == 256
invalid_channel_index == 65535
default_cacheline_size == 64
slot_padding == 1

\* address model: the slot arrays are allocated SlotSize bytes per slot
SlotSize == default_cacheline_size
NullPtr == 0
NoWaiter == "none"
NoValue == 0

(***************************************************************************)
(* Threads.                                                                *)
(***************************************************************************)
Producers == {"p1", "p2"}
Consumers == {"c1", "c2"}
Threads == Producers \cup Consumers
\* the thread of the sequential scenario
SeqThreads == {"s1"}
\* the thread of the scenario of the index mapping
StrideThreads == {"q1"}

ProducerBase(t) == IF t = "p1" THEN 10 ELSE 20
ValuesOf(t) == [i \in 1..ValuesPerProducer |-> ProducerBase(t) + i]

(***************************************************************************)
(* 64-bit words (sequences of 8 bytes, least significant first) and the    *)
(* registry's key hash.                                                    *)
(***************************************************************************)
Min(a, b) == IF a < b THEN a ELSE b
Max(a, b) == IF a < b THEN b ELSE a

RECURSIVE Pow2(_)
Pow2(n) == IF n = 0 THEN 1 ELSE 2 * Pow2(n - 1)

RECURSIVE XorBits(_, _, _)
XorBits(a, b, n) ==
    IF n = 0 THEN 0 ELSE ((a + b) % 2) + 2 * XorBits(a \div 2, b \div 2, n - 1)

RECURSIVE BitAnd(_, _)
BitAnd(a, b) ==
    IF a = 0 \/ b = 0 THEN 0 ELSE ((a % 2) * (b % 2)) + 2 * BitAnd(a \div 2, b \div 2)

ByteAt(a, i) == IF i >= 1 /\ i <= 8 THEN a[i] ELSE 0

RECURSIVE ToBytes(_, _)
ToBytes(n, k) == IF k = 0 THEN <<>> ELSE <<n % 256>> \o ToBytes(n \div 256, k - 1)

RECURSIVE Xor64From(_, _, _)
Xor64From(a, b, i) ==
    IF i > 8 THEN <<>> ELSE <<XorBits(a[i], b[i], 8)>> \o Xor64From(a, b, i + 1)

Xor64(a, b) == Xor64From(a, b, 1)

RECURSIVE Shr64From(_, _, _, _)
Shr64From(a, q, r, i) ==
    IF i > 8 THEN <<>>
    ELSE <<((ByteAt(a, i + q) \div Pow2(r)) + (ByteAt(a, i + q + 1) * Pow2(8 - r))) % 256>>
         \o Shr64From(a, q, r, i + 1)

Shr64(a, n) == Shr64From(a, n \div 8, n % 8, 1)

RECURSIVE Shl64From(_, _, _, _)
Shl64From(a, q, r, i) ==
    IF i > 8 THEN <<>>
    ELSE <<((ByteAt(a, i - q) * Pow2(r)) + (ByteAt(a, i - q - 1) \div Pow2(8 - r))) % 256>>
         \o Shl64From(a, q, r, i + 1)

Shl64(a, n) == Shl64From(a, n \div 8, n % 8, 1)

RECURSIVE Add64From(_, _, _, _)
Add64From(a, b, i, carry) ==
    IF i > 8 THEN <<>>
    ELSE <<(a[i] + b[i] + carry) % 256>>
         \o Add64From(a, b, i + 1, (a[i] + b[i] + carry) \div 256)

Add64(a, b) == Add64From(a, b, 1, 0)

RECURSIVE ColSum(_, _, _, _)
ColSum(a, b, k, i) == IF i > k THEN 0 ELSE a[i] * b[k + 1 - i] + ColSum(a, b, k, i + 1)

RECURSIVE Mul64From(_, _, _, _)
Mul64From(a, b, k, carry) ==
    IF k > 8 THEN <<>>
    ELSE <<(ColSum(a, b, k, 1) + carry) % 256>>
         \o Mul64From(a, b, k + 1, (ColSum(a, b, k, 1) + carry) \div 256)

Mul64(a, b) == Mul64From(a, b, 1, 0)

\* 0x9e3779b97f4a7c15, 0xbf58476d1ce4e5b9, 0x94d049bb133111eb
MixGolden == <<21, 124, 74, 127, 185, 121, 55, 158>>
MixMulA == <<185, 229, 228, 28, 109, 71, 88, 191>>
MixMulB == <<235, 17, 49, 19, 187, 73, 208, 148>>
ZeroTag == <<0, 0, 0, 0, 0, 0, 0, 0>>

mix_key(turn_ptr, expected_turn) ==
    LET m0 == Shr64(ToBytes(turn_ptr, 8), 6)
        m1 == Xor64(m0, Add64(Add64(Add64(ToBytes(expected_turn, 8), MixGolden),
                                    Shl64(m0, 6)),
                              Shr64(m0, 2)))
        m2 == Xor64(m1, Shr64(m1, 30))
        m3 == Mul64(m2, MixMulA)
        m4 == Xor64(m3, Shr64(m3, 27))
        m5 == Mul64(m4, MixMulB)
        m6 == Xor64(m5, Shr64(m5, 31))
    IN  [m6 EXCEPT ![1] = (@ - (@ % 2)) + 1]

hash_key(turn_ptr, expected_turn) ==
    LET m == mix_key(turn_ptr, expected_turn)
    IN  BitAnd(m[1] + 256 * m[2], wait_channel_count_ - 1)

(***************************************************************************)
(* State.                                                                  *)
(***************************************************************************)
VARIABLES
    push_ticket,    \* push_ticket_
    pop_ticket,     \* pop_ticket_
    arr,            \* the allocated slot arrays: arr[a][i] = [turn, storage]
    dyn,            \* the growable queue's dslots_, dcapacity_, dstride_, dstate_
                    \* and closed_arrays_
    channels,       \* channels[r]: the non-empty wait channels of registry r
    probe_window,   \* probe_window_ of each registry
    occupied,       \* occupied_channel_count_ of each registry
    wtr,            \* the waiter records
    wstat,          \* wstat[w]: the arm calls of waiter w, the callbacks of its
                    \* current arm call, whether its disarm has returned
    th,             \* th[t]: the call stack of thread t
    ret,            \* ret[t]: what the last call of thread t returned
    todo,           \* todo[t]: the values producer t has still to push
    accepted,       \* bag of the values a successful try_push accepted
    popped,         \* bag of the values a successful try_pop returned
    closed,         \* channel: state::closed
    close_epoch,    \* channel: state::close_epoch
    ops,            \* channel: ops[o], the operation states of async operation o
    delivered,      \* channel: bag of the values its pops handed to their callers
    pushed          \* pushed[k]: the value of the push that claimed ticket k, kept
                    \* until the pop of ticket k has published its turn

vars == <<push_ticket, pop_ticket, arr, dyn, channels, probe_window, occupied, wtr,
          wstat, th, ret, todo, accepted, popped, closed, close_epoch, ops, delivered,
          pushed>>

queueVars == <<push_ticket, pop_ticket, arr, dyn>>
notifyVars == <<channels, probe_window, occupied, wtr, wstat>>
historyVars == <<todo, accepted, popped, delivered, pushed>>
channelVars == <<closed, close_epoch, ops>>

(***************************************************************************)
(* Ring arithmetic (mpmc_queue_common and the bounded queue's members).    *)
(***************************************************************************)
small_primes == <<2, 3, 5, 7, 11, 13, 17, 19, 23>>

is_power_of_two(value) == value /= 0 /\ BitAnd(value, value - 1) = 0

RECURSIVE countr_zero(_)
countr_zero(value) == IF value % 2 = 1 THEN 0 ELSE 1 + countr_zero(value \div 2)

RECURSIVE StrideScan(_, _, _, _)
StrideScan(capacity, i, best_stride, best_separation) ==
    IF i > Len(small_primes) THEN best_stride
    ELSE LET stride == small_primes[i]
             separation == Min(stride % capacity, capacity - (stride % capacity))
         IN  IF (stride % capacity) = 0 \/ (capacity % stride) = 0
             THEN StrideScan(capacity, i + 1, best_stride, best_separation)
             ELSE IF separation > best_separation
                  THEN StrideScan(capacity, i + 1, stride, separation)
                  ELSE StrideScan(capacity, i + 1, best_stride, best_separation)

\* variant: the first of the primes, whatever the capacity
compute_stride_first(capacity) == small_primes[1]

compute_stride(capacity) == StrideScan(capacity, 1, 1, 1)

enqueue_turn(local_ticket, capacity) ==
    IF is_power_of_two(capacity)
    THEN (local_ticket \div Pow2(countr_zero(capacity))) * 2
    ELSE (local_ticket \div capacity) * 2

\* variant: the consumer's turn is the producer's
dequeue_turn_same(local_ticket, capacity) == enqueue_turn(local_ticket, capacity)

dequeue_turn(local_ticket, capacity) == enqueue_turn(local_ticket, capacity) + 1

slot_count(capacity) == capacity + (2 * slot_padding)

\* the bounded queue's members, fixed at construction: the queue of the
\* sequential scenario has its own capacity
capacity_ ==
    IF DOMAIN th = SeqThreads THEN SeqCapacity
    ELSE IF DOMAIN th = StrideThreads THEN th["q1"][1].capacity
    ELSE Capacity
stride_ == compute_stride(capacity_)
capacity_is_pow2_ == is_power_of_two(capacity_)
capacity_mask_ == IF capacity_is_pow2_ THEN capacity_ - 1 ELSE 0
capacity_shift_ == IF capacity_is_pow2_ THEN countr_zero(capacity_) ELSE 0
\* the bounded queue's slot array is array 0
slots_ == 0

enqueue_turn_for_ticket(ticket) ==
    IF capacity_is_pow2_
    THEN (ticket \div Pow2(capacity_shift_)) * 2
    ELSE (ticket \div capacity_) * 2

\* variant: a consumer that waits for the producer's own turn
dequeue_turn_for_ticket_same(ticket) == enqueue_turn_for_ticket(ticket)

dequeue_turn_for_ticket(ticket) == enqueue_turn_for_ticket(ticket) + 1

\* variant: every ticket is served by the first slot
slot_index_first(ticket) == slot_padding

slot_index(ticket) ==
    IF capacity_is_pow2_
    THEN BitAnd(ticket * stride_, capacity_mask_) + slot_padding
    ELSE ((ticket * stride_) % capacity_) + slot_padding

\* the registries of the push waiters and of the pop waiters of a queue, and
\* close_notify of a channel
Registries == {"push", "pop", "close"}

\* the address of slot i of array a (its turn word is its first member)
ArrayBase(a) == 65536 + (a * 4096)
SlotAddr(a, i) == ArrayBase(a) + i * SlotSize

\* the address of state::close_epoch of the channel
close_epoch_ptr == 32768

\* The keys of the waiters of the first two slot arrays and of close_epoch,
\* for the turns up to KeyTurns, with key_tag and start of each computed
\* once; key_tag_of and start_of are mix_key and hash_key of these keys.
KeyTurns == 4
KeyTable ==
    <<>> @@
    [k \in (({SlotAddr(a, i) : a \in 0..1, i \in 0..8} \cup {close_epoch_ptr})
             \X (0..KeyTurns)) |->
        [key_tag |-> mix_key(k[1], k[2]), start |-> hash_key(k[1], k[2])]]

key_tag_of(turn_ptr, expected_turn) == KeyTable[<<turn_ptr, expected_turn>>].key_tag

start_of(turn_ptr, expected_turn) == KeyTable[<<turn_ptr, expected_turn>>].start

suggest_channel_index(turn_ptr, expected_turn) == start_of(turn_ptr, expected_turn)

\* the turn word at address p
TurnAt(p) ==
    IF p = close_epoch_ptr THEN close_epoch
    ELSE arr[(p - ArrayBase(0)) \div 4096][((p - ArrayBase(0)) % 4096) \div SlotSize].turn

AllocatedSlots(capacity) ==
    [i \in 0..(slot_count(capacity) - 1) |-> [turn |-> 0, storage |-> NoValue]]

\* the bounded queue has no growth state
\* resolved[k] records, for the checks, the view (offset, slots, capacity,
\* stride) under which the producer of ticket k claimed it, kept until the
\* pop of ticket k has published its turn
NoDyn == [dslots |-> 0, dcapacity |-> 0, dstride |-> 0, dstate |-> 0, closed_arrays |-> <<>>,
          resolved |-> <<>>]

EmptyChannel ==
    [lock |-> FALSE, key_tag |-> ZeroTag, turn_ptr |-> NullPtr, expected_turn |-> 0,
     head |-> NoWaiter, size |-> 0]

Chan(r, i) == IF i \in DOMAIN channels[r] THEN channels[r][i] ELSE EmptyChannel

\* channels with channel i of registry r set to c (empty channels are not stored)
WithChan(r, i, c) ==
    [channels EXCEPT ![r] =
        IF c = EmptyChannel
        THEN [j \in (DOMAIN @) \ {i} |-> @[j]]
        ELSE [j \in (DOMAIN @) \cup {i} |-> IF j = i THEN c ELSE @[j]]]

(***************************************************************************)
(* Call stacks.                                                            *)
(***************************************************************************)
Top(t) == th[t][Len(th[t])]
Running(t, f) == th[t] /= <<>> /\ Top(t).fn = f
\* the top frame becomes f
Goto(t, f) == [th EXCEPT ![t] = [@ EXCEPT ![Len(@)] = f]]
\* the top frame becomes cont and calls callee
Call(t, cont, callee) == [th EXCEPT ![t] = Append([@ EXCEPT ![Len(@)] = cont], callee)]
\* the top frame ends with a call of callee and returns what it returns
TailCall(t, callee) == Goto(t, callee)
\* the top frame returns
Return(t) == [th EXCEPT ![t] = SubSeq(@, 1, Len(@) - 1)]

Result(status, value) == [status |-> status, value |-> value]

\* the record of the tickets in flight, with ticket k claimed for value v, and
\* with ticket k released
WithPushed(k, v) == [j \in (DOMAIN pushed) \cup {k} |-> IF j = k THEN v ELSE pushed[j]]
WithoutPushed(k) == [j \in (DOMAIN pushed) \ {k} |-> pushed[j]]
NoResult == Result("none", NoValue)

\* result is what the function that ends with this notify call returns
NotifyFrame(r, turn_ptr, turn_value) ==
    [fn |-> "notify", r |-> r, turn_ptr |-> turn_ptr, turn_value |-> turn_value,
     pc |-> "scan", full |-> FALSE, offset |-> 0, index |-> 0,
     list |-> NoWaiter, ready |-> NoWaiter, current |-> NoWaiter, result |-> NoResult]

\* variant: the lock flag is left set
unlock_channel_held(channel) == channel

\* variant: the lock flag is stored as set
unlock_channel_set(channel) == [channel EXCEPT !.lock = TRUE]

unlock_channel(channel) == [channel EXCEPT !.lock = FALSE]

CallbackFrame(w) ==
    [fn |-> wtr[w].notify, owner |-> wtr[w].owner, w |-> w, pc |-> "enter"]

(***************************************************************************)
(* sender_notify: probing.                                                 *)
(***************************************************************************)
probe_window_value(r) ==
    Max(min_probe_window_, Min(probe_window[r], max_probe_window_))

\* offset of channel index j on the probe sequence that starts at start
OffsetOf(j, start) == (j + wait_channel_count_ - start) % wait_channel_count_

\* the offsets in from..span-1 whose channel carries key_tag at this moment
MatchingOffsets(r, key_tag, start, from, span) ==
    {OffsetOf(j, start) : j \in {i \in DOMAIN channels[r] :
        /\ channels[r][i].key_tag = key_tag
        /\ OffsetOf(i, start) >= from
        /\ OffsetOf(i, start) < span}}

SetMin(S) == CHOOSE x \in S : \A y \in S : x <= y

(***************************************************************************)
(* sender_notify::notify, with lock_existing_channel and                   *)
(* lock_matching_channel inlined.                                          *)
(*   scan   the key_tag loads of the probe loops up to the first match     *)
(*   lock   lock_channel on the matching channel, the key comparison and,  *)
(*          for the channel of the key, the detach of its list             *)
(*   walk   one waiter is unlinked (or the channel is unlocked)            *)
(*   xchg   armed.exchange(false)                                          *)
(*   mark   notifying.store(true) and the push on the ready list           *)
(*   ready  the next ready waiter's callback is called                     *)
(*   clear  notifying.store(false)                                         *)
(***************************************************************************)
Notify(t) ==
    LET f == Top(t)
        r == f.r
        span == IF f.full THEN wait_channel_count_ ELSE probe_window_value(r)
    IN
    CASE f.pc = "scan" ->
           LET start == start_of(f.turn_ptr, f.turn_value)
               key_tag == key_tag_of(f.turn_ptr, f.turn_value)
               found == MatchingOffsets(r, key_tag, start, f.offset, span)
               again == MatchingOffsets(r, key_tag, start, 0, wait_channel_count_)
               Lock(full, offset) ==
                   Goto(t, [f EXCEPT !.pc = "lock", !.full = full, !.offset = offset,
                              !.index = (start + offset) % wait_channel_count_])
           IN  /\ IF found /= {}
                  THEN th' = Lock(f.full, SetMin(found)) /\ UNCHANGED ret
                  ELSE IF f.full \/ again = {}
                  THEN th' = Return(t) /\ ret' = [ret EXCEPT ![t] = f.result]
                  ELSE th' = Lock(TRUE, SetMin(again)) /\ UNCHANGED ret
               /\ UNCHANGED <<queueVars, channelVars, notifyVars, historyVars>>
      [] f.pc = "lock" ->
           LET c == Chan(r, f.index)
           IN  /\ ~c.lock
               /\ IF c.turn_ptr = f.turn_ptr /\ c.expected_turn = f.turn_value
                  THEN /\ channels' = WithChan(r, f.index,
                                          [EmptyChannel EXCEPT !.lock = TRUE])
                       /\ occupied' = [occupied EXCEPT ![r] =
                                          IF c.size /= 0 THEN @ - 1 ELSE @]
                       /\ th' = Goto(t, [f EXCEPT !.pc = "walk", !.list = c.head])
                  ELSE /\ th' = Goto(t, [f EXCEPT !.pc = "scan", !.offset = @ + 1])
                       /\ UNCHANGED <<channels, occupied>>
               /\ UNCHANGED <<queueVars, channelVars, probe_window, wtr, wstat, ret, historyVars>>
      [] f.pc = "walk" ->
           IF f.list = NoWaiter
           THEN /\ channels' = WithChan(r, f.index,
                                   unlock_channel(Chan(r, f.index)))
                /\ th' = Goto(t, [f EXCEPT !.pc = "ready"])
                /\ UNCHANGED <<queueVars, channelVars, probe_window, occupied, wtr, wstat, ret,
                               historyVars>>
           ELSE /\ wtr' = [wtr EXCEPT ![f.list] =
                              [@ EXCEPT !.next = NoWaiter, !.prev = NoWaiter,
                                        !.linked = FALSE,
                                        !.channel_index = invalid_channel_index]]
                /\ th' = Goto(t, [f EXCEPT !.pc = "xchg", !.current = f.list,
                                           !.list = wtr[f.list].next])
                /\ UNCHANGED <<queueVars, channelVars, channels, probe_window, occupied, wstat, ret,
                               historyVars>>
      [] f.pc = "xchg" ->
           /\ wtr' = [wtr EXCEPT ![f.current].armed = FALSE]
           /\ th' = Goto(t, [f EXCEPT !.pc = IF wtr[f.current].armed
                                              THEN "mark" ELSE "walk"])
           /\ UNCHANGED <<queueVars, channelVars, channels, probe_window, occupied, wstat, ret,
                          historyVars>>
      [] f.pc = "mark" ->
           /\ wtr' = [wtr EXCEPT ![f.current] =
                         [@ EXCEPT !.notifying = TRUE, !.next = f.ready]]
           /\ th' = Goto(t, [f EXCEPT !.pc = "walk", !.ready = f.current])
           /\ UNCHANGED <<queueVars, channelVars, channels, probe_window, occupied, wstat, ret,
                          historyVars>>
      [] f.pc = "ready" ->
           IF f.ready = NoWaiter
           THEN /\ th' = Return(t)
                /\ ret' = [ret EXCEPT ![t] = f.result]
                /\ UNCHANGED <<queueVars, channelVars, notifyVars, historyVars>>
           ELSE /\ wtr' = [wtr EXCEPT ![f.ready].next = NoWaiter]
                /\ th' = Call(t, [f EXCEPT !.pc = "clear", !.current = f.ready,
                                           !.ready = wtr[f.ready].next],
                              CallbackFrame(f.ready))
                /\ UNCHANGED <<queueVars, channelVars, channels, probe_window, occupied, wstat, ret,
                               historyVars>>
      [] f.pc = "clear" ->
           /\ wtr' = [wtr EXCEPT ![f.current].notifying = FALSE]
           /\ th' = Goto(t, [f EXCEPT !.pc = "ready"])
           /\ UNCHANGED <<queueVars, channelVars, channels, probe_window, occupied, wstat, ret,
                          historyVars>>

(***************************************************************************)
(* The bounded queue: mpmc_queue<value_t, false>.                          *)
(***************************************************************************)
slot_for_ticket(ticket) == [a |-> slots_, i |-> slot_index(ticket)]

\* the turn word and the object that target.value_ptr() points at
turn_of(target) == arr[target.a][target.i].turn
\* variant: the object is read from the array's leading padding slot
value_ptr_padding(target) == arr[target.a][0].storage

value_ptr(target) == arr[target.a][target.i].storage

\* the frames of try_push and try_pop record, for the checks:
\*   full   push_ticket - pop_ticket >= capacity at some instant since the call
\*   empty  push_ticket = pop_ticket at some instant since the call
\*   held   at the last load of the slot's turn, the slot of the ticket that
\*          the ticket counter named was not in the turn the call needs
TryPushFrame(value) ==
    [fn |-> "try_push", pc |-> "load", value |-> value, ticket |-> 0,
     full |-> push_ticket - pop_ticket >= capacity_, empty |-> push_ticket = pop_ticket,
     held |-> FALSE]
TryPopFrame ==
    [fn |-> "try_pop", pc |-> "load", value |-> NoValue, ticket |-> 0,
     full |-> push_ticket - pop_ticket >= capacity_, empty |-> push_ticket = pop_ticket,
     held |-> FALSE]

\* the call stacks ths once the ticket counters are push and pop: the calls of
\* try_push and try_pop in flight have seen the ring with these counters
Observed(ths, push, pop) ==
    [u \in DOMAIN ths |->
        [i \in DOMAIN ths[u] |->
            IF ths[u][i].fn \in {"try_push", "try_pop"}
            THEN [ths[u][i] EXCEPT !.full = @ \/ push - pop >= capacity_,
                                   !.empty = @ \/ push = pop]
            ELSE ths[u][i]]]

DynFrame(fn, start, value) ==
    [fn |-> fn, pc |-> start, value |-> value, ticket |-> 0, state |-> 0, slots |-> 0,
     capacity |-> 0, stride |-> 1, offset |-> 0, new_slots |-> 0, ticket_offset |-> 0]

DynTryPushFrame(value) == DynFrame("dyn_try_push", "depth_w", value)
DynTryPopFrame == DynFrame("dyn_try_pop", "load", NoValue)

notify_pop_waiters(turn_ptr, turn_value) == NotifyFrame("pop", turn_ptr, turn_value)
notify_push_waiters(turn_ptr, turn_value) == NotifyFrame("push", turn_ptr, turn_value)

\* variant: the ticket counter is not compared with the observed ticket
ticket_unchanged_always(observed, ticket) == TRUE

\* observed == ticket, after the ticket counter was loaded again
ticket_unchanged(observed, ticket) == observed = ticket

TryPush(t) ==
    LET f == Top(t)
        target == slot_for_ticket(f.ticket)
        expected_turn == enqueue_turn_for_ticket(f.ticket)
    IN
    CASE f.pc = "load" ->
           /\ th' = Goto(t, [f EXCEPT !.pc = "turn", !.ticket = push_ticket])
           /\ UNCHANGED <<queueVars, channelVars, notifyVars, ret, historyVars>>
      [] f.pc = "turn" ->
           /\ th' = Goto(t, [f EXCEPT !.pc = IF turn_of(target) /= expected_turn
                                              THEN "reload" ELSE "cas",
                                      !.held = turn_of(slot_for_ticket(push_ticket))
                                               /= enqueue_turn_for_ticket(push_ticket)])
           /\ UNCHANGED <<queueVars, channelVars, notifyVars, ret, historyVars>>
      [] f.pc = "reload" ->
           /\ IF ticket_unchanged(f.ticket, push_ticket)
              THEN /\ th' = Return(t)
                   /\ ret' = [ret EXCEPT ![t] = Result("queue_full", NoValue)]
              ELSE /\ th' = Goto(t, [f EXCEPT !.pc = "turn", !.ticket = push_ticket])
                   /\ UNCHANGED ret
           /\ UNCHANGED <<queueVars, channelVars, notifyVars, historyVars>>
      [] f.pc = "cas" ->
           \* compare_exchange_weak: success, failure, or spurious failure
           /\ \/ /\ push_ticket = f.ticket
                 /\ push_ticket' = f.ticket + 1
                 /\ pushed' = WithPushed(f.ticket, f.value)
                 /\ th' = Observed(Goto(t, [f EXCEPT !.pc = "construct"]),
                                   f.ticket + 1, pop_ticket)
              \/ /\ th' = Goto(t, [f EXCEPT !.pc = "turn", !.ticket = push_ticket])
                 /\ UNCHANGED <<push_ticket, pushed>>
           /\ UNCHANGED <<pop_ticket, arr, dyn, channelVars, notifyVars, ret, todo, accepted,
                          popped, delivered>>
      [] f.pc = "construct" ->
           /\ arr' = [arr EXCEPT ![target.a][target.i].storage = f.value]
           /\ th' = Goto(t, [f EXCEPT !.pc = "publish"])
           /\ UNCHANGED <<push_ticket, pop_ticket, dyn, channelVars, notifyVars, ret, historyVars>>
      [] f.pc = "publish" ->
           /\ arr' = [arr EXCEPT ![target.a][target.i].turn = expected_turn + 1]
           \* the call returns success once notify has returned
           /\ th' = TailCall(t, [notify_pop_waiters(SlotAddr(target.a, target.i),
                                                   expected_turn + 1) EXCEPT
                         !.result = Result("success", NoValue)])
           /\ UNCHANGED ret
           /\ accepted' = accepted (+) SetToBag({f.value})
           /\ UNCHANGED <<push_ticket, pop_ticket, dyn, channelVars, notifyVars, todo, popped, delivered, pushed>>

TryPop(t) ==
    LET f == Top(t)
        target == slot_for_ticket(f.ticket)
        expected_turn == dequeue_turn_for_ticket(f.ticket)
    IN
    CASE f.pc = "load" ->
           /\ th' = Goto(t, [f EXCEPT !.pc = "turn", !.ticket = pop_ticket])
           /\ UNCHANGED <<queueVars, channelVars, notifyVars, ret, historyVars>>
      [] f.pc = "turn" ->
           /\ th' = Goto(t, [f EXCEPT !.pc = IF turn_of(target) /= expected_turn
                                              THEN "reload" ELSE "cas",
                                      !.held = turn_of(slot_for_ticket(pop_ticket))
                                               /= dequeue_turn_for_ticket(pop_ticket)])
           /\ UNCHANGED <<queueVars, channelVars, notifyVars, ret, historyVars>>
      [] f.pc = "reload" ->
           /\ IF ticket_unchanged(f.ticket, pop_ticket)
              THEN /\ th' = Return(t)
                   /\ ret' = [ret EXCEPT ![t] = Result("queue_empty", NoValue)]
              ELSE /\ th' = Goto(t, [f EXCEPT !.pc = "turn", !.ticket = pop_ticket])
                   /\ UNCHANGED ret
           /\ UNCHANGED <<queueVars, channelVars, notifyVars, historyVars>>
      [] f.pc = "cas" ->
           /\ \/ /\ pop_ticket = f.ticket
                 /\ pop_ticket' = f.ticket + 1
                 /\ th' = Observed(Goto(t, [f EXCEPT !.pc = "move"]),
                                   push_ticket, f.ticket + 1)
              \/ /\ th' = Goto(t, [f EXCEPT !.pc = "turn", !.ticket = pop_ticket])
                 /\ UNCHANGED pop_ticket
           /\ UNCHANGED <<push_ticket, arr, dyn, channelVars, notifyVars, ret, historyVars>>
      [] f.pc = "move" ->
           /\ arr' = [arr EXCEPT ![target.a][target.i].storage = NoValue]
           /\ th' = Goto(t, [f EXCEPT !.pc = "publish", !.value = value_ptr(target)])
           /\ UNCHANGED <<push_ticket, pop_ticket, dyn, channelVars, notifyVars, ret, historyVars>>
      [] f.pc = "publish" ->
           /\ arr' = [arr EXCEPT ![target.a][target.i].turn = expected_turn + 1]
           /\ th' = TailCall(t, [notify_push_waiters(SlotAddr(target.a, target.i),
                                                    expected_turn + 1) EXCEPT
                         !.result = Result("success", f.value)])
           /\ UNCHANGED ret
           /\ popped' = popped (+) SetToBag({f.value})
           /\ pushed' = WithoutPushed(f.ticket)
           /\ UNCHANGED <<push_ticket, pop_ticket, dyn, channelVars, notifyVars, todo, accepted,
                          delivered>>

(***************************************************************************)
(* The threads of the bounded-queue scenario: a producer pushes its values *)
(* one after the other and retries a push that returned queue_full; a      *)
(* consumer calls try_pop again and again.                                 *)
(***************************************************************************)
Producer(t) ==
    LET f == Top(t)
        left == IF ret[t].status = "success" THEN Tail(todo[t]) ELSE todo[t]
    IN  /\ left /= <<>>
        /\ th' = Call(t, f, IF f.fn = "producer" THEN TryPushFrame(Head(left))
                                                 ELSE DynTryPushFrame(Head(left)))
        /\ todo' = [todo EXCEPT ![t] = left]
        /\ ret' = [ret EXCEPT ![t] = NoResult]
        /\ UNCHANGED <<queueVars, channelVars, notifyVars, accepted, popped, delivered, pushed>>

Consumer(t) ==
    /\ th' = Call(t, Top(t), IF Top(t).fn = "consumer" THEN TryPopFrame ELSE DynTryPopFrame)
    /\ ret' = [ret EXCEPT ![t] = NoResult]
    /\ UNCHANGED <<queueVars, channelVars, notifyVars, historyVars>>

\* no channel around the queue
NoChannel ==
    /\ closed = FALSE
    /\ close_epoch = 0
    /\ ops = <<>>
    /\ delivered = EmptyBag
    /\ pushed = <<>>

InitRegistries ==
    /\ channels = [r \in Registries |-> <<>>]
    /\ probe_window = [r \in Registries |-> 16]
    /\ occupied = [r \in Registries |-> 0]

Init ==
    /\ push_ticket = 0
    /\ pop_ticket = 0
    /\ arr = <<>> @@ (slots_ :> AllocatedSlots(Capacity))
    /\ dyn = NoDyn
    /\ InitRegistries
    /\ wtr = <<>>
    /\ wstat = <<>>
    /\ th = [t \in Threads |->
                <<[fn |-> IF t \in Producers THEN "producer" ELSE "consumer"]>>]
    /\ ret = [t \in Threads |-> NoResult]
    /\ todo = [t \in Threads |-> IF t \in Producers THEN ValuesOf(t) ELSE <<>>]
    /\ accepted = EmptyBag
    /\ popped = EmptyBag
    /\ NoChannel

Next ==
    \/ \E t \in DOMAIN th : Running(t, "producer") /\ Producer(t)
    \/ \E t \in DOMAIN th : Running(t, "consumer") /\ Consumer(t)
    \/ \E t \in DOMAIN th : Running(t, "try_push") /\ TryPush(t)
    \/ \E t \in DOMAIN th : Running(t, "try_pop") /\ TryPop(t)
    \/ \E t \in DOMAIN th : Running(t, "notify") /\ Notify(t)

Spec == Init /\ [][Next]_vars

(***************************************************************************)
(* Properties of the bounded queue.                                        *)
(***************************************************************************)
AllValues == UNION {{ValuesOf(t)[i] : i \in 1..ValuesPerProducer} : t \in Producers}

\* every operation has returned, every value was accepted, the queue is drained
Quiescent ==
    /\ \A t \in DOMAIN th : Len(th[t]) = 1
    /\ BagCardinality(accepted) = Cardinality(AllValues)
    /\ push_ticket = pop_ticket

\* C1: once every try_push and try_pop has returned and the queue is drained,
\* the bag of the values returned by successful try_pop calls equals the bag
\* of the values accepted by successful try_push calls, and every pushed
\* value is in it exactly once.
C1_PoppedEqualsAccepted ==
    Quiescent =>
        /\ popped = accepted
        /\ accepted = SetToBag(AllValues)

C1_Witness ==
    /\ Quiescent
    /\ BagCardinality(popped) = Cardinality(Producers) * ValuesPerProducer

\* C8: in every reachable state of the bounded queue pop_ticket <= push_ticket
\* and push_ticket - pop_ticket <= capacity.
C8_DepthWithinCapacity ==
    /\ pop_ticket <= push_ticket
    /\ push_ticket - pop_ticket <= capacity_

\* the queue was full and has been drained again, over more than one lap
C8_Witness ==
    /\ push_ticket - pop_ticket = capacity_
    /\ pop_ticket >= capacity_

(***************************************************************************)
(* The growable queue: mpmc_queue<value_t, true>.                          *)
(***************************************************************************)
\* the constructor's arguments: initial_capacity, options.max_capacity and
\* options.growth_factor
InitialCapacity == 1
MaxCapacity == 2
GrowthFactor == 2

seqlock_bits == 8

resolve_growth_factor(growth_factor) == IF growth_factor < 2 THEN 2 ELSE growth_factor

\* variant: a max_capacity other than 0 is taken as given
resolve_max_capacity_given(initial_capacity, max_capacity) ==
    IF max_capacity = 0 THEN initial_capacity ELSE max_capacity

resolve_max_capacity(initial_capacity, max_capacity) ==
    IF max_capacity = 0 THEN initial_capacity ELSE Max(max_capacity, initial_capacity)

RECURSIVE CountExpansions(_, _, _)
CountExpansions(expanded, max_capacity, growth_factor) ==
    IF expanded >= max_capacity THEN 0
    ELSE 1 + CountExpansions(IF expanded > (max_capacity \div growth_factor)
                             THEN max_capacity ELSE expanded * growth_factor,
                             max_capacity, growth_factor)

\* variant: no closed array is preallocated
compute_max_closed_arrays_none(initial_capacity, max_capacity, growth_factor) == 0

compute_max_closed_arrays(initial_capacity, max_capacity, growth_factor) ==
    IF initial_capacity >= max_capacity THEN 0
    ELSE CountExpansions(initial_capacity, max_capacity, growth_factor)

max_capacity_ == resolve_max_capacity(InitialCapacity, MaxCapacity)
growth_factor_ == resolve_growth_factor(GrowthFactor)
max_closed_arrays_ == compute_max_closed_arrays(InitialCapacity, max_capacity_, growth_factor_)

get_offset(state) == state \div Pow2(seqlock_bits)
get_num_closed(state) == (state % Pow2(seqlock_bits)) \div 2

next_capacity(current) ==
    IF current >= max_capacity_ THEN current
    ELSE LET grown == IF current > (max_capacity_ \div growth_factor_)
                      THEN max_capacity_ ELSE current * growth_factor_
         IN  IF grown <= current THEN max_capacity_ ELSE Min(grown, max_capacity_)

dyn_slot_index(local_ticket, capacity, stride) ==
    IF is_power_of_two(capacity)
    THEN BitAnd(local_ticket * stride, capacity - 1) + slot_padding
    ELSE ((local_ticket * stride) % capacity) + slot_padding

closed_array == [offset |-> 0, slots |-> 0, capacity |-> 0, stride |-> 1]

\* approximate_depth() >= n, the depth being writes - reads in std::uint64_t:
\* a difference below zero wraps to a value near 2^64
DepthAtLeast(writes, reads, n) == writes < reads \/ writes - reads >= n

\* the closed array that serves ticket, searched from the newest one
RECURSIVE ClosedFor(_, _)
ClosedFor(index, ticket) ==
    IF index = 0 THEN closed_array
    ELSE IF dyn.closed_arrays[index].offset <= ticket
         THEN dyn.closed_arrays[index]
         ELSE ClosedFor(index - 1, ticket)

\* the view (offset, slots, capacity, stride) that serves the frame's ticket;
\* capacity 0 stands for the failed precondition of line 1569
maybe_update_from_closed(f) ==
    IF f.ticket >= get_offset(f.state)
    THEN [offset |-> get_offset(f.state), slots |-> f.slots,
          capacity |-> f.capacity, stride |-> f.stride]
    ELSE ClosedFor(get_num_closed(f.state), f.ticket)

\* the loop starts over: continue
Continue(t, f) == Goto(t, DynFrame(f.fn, "load", f.value))

\* the view a frame has resolved its ticket to
ViewOf(f) == [offset |-> f.offset, slots |-> f.slots, capacity |-> f.capacity,
              stride |-> f.stride]

dyn_slot_for_ticket(f) ==
    [a |-> f.slots, i |-> dyn_slot_index(f.ticket - f.offset, f.capacity, f.stride)]

(***************************************************************************)
(* The head of both loops: the ticket load, try_seqlock_read_section       *)
(* and maybe_update_from_closed.                                           *)
(***************************************************************************)
try_seqlock_read_section(t, ticket_word) ==
    LET f == Top(t)
    IN  /\ f.pc \in {"load", "sl_state", "sl_slots", "sl_capacity", "sl_stride", "sl_check"}
        /\ th' =
             CASE f.pc = "load" -> Goto(t, [f EXCEPT !.pc = "sl_state", !.ticket = ticket_word])
               [] f.pc = "sl_state" ->
                    IF dyn.dstate % 2 /= 0 THEN Continue(t, f)
                    ELSE Goto(t, [f EXCEPT !.pc = "sl_slots", !.state = dyn.dstate])
               [] f.pc = "sl_slots" ->
                    Goto(t, [f EXCEPT !.pc = "sl_capacity", !.slots = dyn.dslots])
               [] f.pc = "sl_capacity" ->
                    Goto(t, [f EXCEPT !.pc = "sl_stride", !.capacity = dyn.dcapacity])
               [] f.pc = "sl_stride" ->
                    Goto(t, [f EXCEPT !.pc = "sl_check", !.stride = dyn.dstride])
               [] f.pc = "sl_check" ->
                    IF f.state /= dyn.dstate THEN Continue(t, f)
                    ELSE LET view == maybe_update_from_closed(f)
                         IN  Goto(t, [f EXCEPT !.pc = IF view.capacity = 0
                                                      THEN "trap" ELSE "turn",
                                               !.offset = view.offset,
                                               !.slots = view.slots,
                                               !.capacity = view.capacity,
                                               !.stride = view.stride])
        /\ UNCHANGED <<queueVars, channelVars, notifyVars, ret, historyVars>>

\* variant: the new ring starts after the smaller ticket counter
next_ticket_offset_low(first, second) == 1 + Min(first, second)

\* variant: the new ring starts at the larger ticket counter itself
next_ticket_offset_same(first, second) == Max(first, second)

\* the ticket offset of the new ring, from the two ticket counters
next_ticket_offset(first, second) == 1 + Max(first, second)

(***************************************************************************)
(* try_expand, from the compare-exchange that takes the seqlock on.        *)
(*   ex_lock     dstate_.compare_exchange_strong and allocate_slots        *)
(*   ex_restore  dstate_.store(state) of a failed expansion                *)
(*   ex_first    the first load of std::max(push_ticket_, pop_ticket_)     *)
(*   ex_second   the second load, and the closed_arrays_ entry             *)
(*   ex_slots, ex_capacity, ex_stride, ex_state   the four stores          *)
(***************************************************************************)
try_expand(t) ==
    LET f == Top(t)
        closed_index == get_num_closed(f.state)
        expanded_capacity == next_capacity(f.capacity)
        new_slots == Len(arr) + 1
    IN
    CASE f.pc = "ex_lock" ->
           IF dyn.dstate /= f.state
           THEN /\ th' = Continue(t, f)
                /\ UNCHANGED <<queueVars, channelVars, notifyVars, ret, historyVars>>
           ELSE /\ dyn' = [dyn EXCEPT !.dstate = f.state + 1]
                /\ IF expanded_capacity <= f.capacity \/ closed_index >= max_closed_arrays_
                   THEN /\ th' = Goto(t, [f EXCEPT !.pc = "ex_restore"])
                        /\ UNCHANGED arr
                   ELSE \* allocate_slots returns the new array or nullptr
                        \/ /\ arr' = Append(arr, AllocatedSlots(expanded_capacity))
                           /\ th' = Goto(t, [f EXCEPT !.pc = "ex_first",
                                                      !.new_slots = new_slots])
                        \/ /\ th' = Goto(t, [f EXCEPT !.pc = "ex_restore"])
                           /\ UNCHANGED arr
                /\ UNCHANGED <<push_ticket, pop_ticket, channelVars, notifyVars, ret, historyVars>>
      [] f.pc = "ex_restore" ->
           /\ dyn' = [dyn EXCEPT !.dstate = f.state]
           /\ th' = Return(t)
           /\ ret' = [ret EXCEPT ![t] = Result("queue_full", NoValue)]
           /\ UNCHANGED <<push_ticket, pop_ticket, arr, channelVars, notifyVars, historyVars>>
      [] f.pc = "ex_first" ->
           \* the two loads of std::max's arguments happen in either order
           /\ \/ th' = Goto(t, [f EXCEPT !.pc = "ex_second_pop", !.ticket_offset = push_ticket])
              \/ th' = Goto(t, [f EXCEPT !.pc = "ex_second_push", !.ticket_offset = pop_ticket])
           /\ UNCHANGED <<queueVars, channelVars, notifyVars, ret, historyVars>>
      [] f.pc \in {"ex_second_pop", "ex_second_push"} ->
           /\ th' = Goto(t, [f EXCEPT !.pc = "ex_slots",
                               !.ticket_offset =
                                   next_ticket_offset(@, IF f.pc = "ex_second_pop"
                                                         THEN pop_ticket ELSE push_ticket)])
           /\ dyn' = [dyn EXCEPT !.closed_arrays[closed_index + 1] =
                         [offset |-> get_offset(f.state), slots |-> dyn.dslots,
                          capacity |-> f.capacity, stride |-> dyn.dstride]]
           /\ UNCHANGED <<push_ticket, pop_ticket, arr, channelVars, notifyVars, ret, historyVars>>
      [] f.pc = "ex_slots" ->
           /\ dyn' = [dyn EXCEPT !.dslots = f.new_slots]
           /\ th' = Goto(t, [f EXCEPT !.pc = "ex_capacity"])
           /\ UNCHANGED <<push_ticket, pop_ticket, arr, channelVars, notifyVars, ret, historyVars>>
      [] f.pc = "ex_capacity" ->
           /\ dyn' = [dyn EXCEPT !.dcapacity = expanded_capacity]
           /\ th' = Goto(t, [f EXCEPT !.pc = "ex_stride"])
           /\ UNCHANGED <<push_ticket, pop_ticket, arr, channelVars, notifyVars, ret, historyVars>>
      [] f.pc = "ex_stride" ->
           /\ dyn' = [dyn EXCEPT !.dstride = compute_stride(expanded_capacity)]
           /\ th' = Goto(t, [f EXCEPT !.pc = "ex_state"])
           /\ UNCHANGED <<push_ticket, pop_ticket, arr, channelVars, notifyVars, ret, historyVars>>
      [] f.pc = "ex_state" ->
           /\ dyn' = [dyn EXCEPT !.dstate = (f.ticket_offset * Pow2(seqlock_bits))
                                            + (2 * (closed_index + 1))]
           /\ th' = Continue(t, f)
           /\ UNCHANGED <<push_ticket, pop_ticket, arr, channelVars, notifyVars, ret, historyVars>>

DynTryPush(t) ==
    LET f == Top(t)
        target == dyn_slot_for_ticket(f)
        expected_turn == enqueue_turn(f.ticket - f.offset, f.capacity)
    IN
    CASE f.pc = "depth_w" ->
           /\ th' = Goto(t, [f EXCEPT !.pc = "depth_r", !.ticket = push_ticket])
           /\ UNCHANGED <<queueVars, channelVars, notifyVars, ret, historyVars>>
      [] f.pc = "depth_r" ->
           /\ IF DepthAtLeast(f.ticket, pop_ticket, max_capacity_)
              THEN /\ th' = Return(t)
                   /\ ret' = [ret EXCEPT ![t] = Result("queue_full", NoValue)]
              ELSE /\ th' = Continue(t, f)
                   /\ UNCHANGED ret
           /\ UNCHANGED <<queueVars, channelVars, notifyVars, historyVars>>
      [] f.pc = "turn" ->
           /\ th' = Goto(t, [f EXCEPT !.pc = IF turn_of(target) = expected_turn
                                              THEN "cas" ELSE "reload"])
           /\ UNCHANGED <<queueVars, channelVars, notifyVars, ret, historyVars>>
      [] f.pc = "cas" ->
           /\ IF push_ticket = f.ticket
              THEN /\ push_ticket' = f.ticket + 1
                   /\ pushed' = WithPushed(f.ticket, f.value)
                   /\ dyn' = [dyn EXCEPT !.resolved = (f.ticket :> ViewOf(f)) @@ @]
                   /\ th' = Goto(t, [f EXCEPT !.pc = "construct"])
              ELSE /\ th' = Continue(t, f)
                   /\ UNCHANGED <<push_ticket, pushed, dyn>>
           /\ UNCHANGED <<pop_ticket, arr, channelVars, notifyVars, ret, todo, accepted,
                          popped, delivered>>
      [] f.pc = "construct" ->
           /\ arr' = [arr EXCEPT ![target.a][target.i].storage = f.value]
           /\ th' = Goto(t, [f EXCEPT !.pc = "publish"])
           /\ UNCHANGED <<push_ticket, pop_ticket, dyn, channelVars, notifyVars, ret, historyVars>>
      [] f.pc = "publish" ->
           /\ arr' = [arr EXCEPT ![target.a][target.i].turn = expected_turn + 1]
           /\ th' = TailCall(t, [notify_pop_waiters(SlotAddr(target.a, target.i),
                                                   expected_turn + 1) EXCEPT
                         !.result = Result("success", NoValue)])
           /\ UNCHANGED ret
           /\ accepted' = accepted (+) SetToBag({f.value})
           /\ UNCHANGED <<push_ticket, pop_ticket, dyn, channelVars, notifyVars, todo, popped, delivered, pushed>>
      [] f.pc = "reload" ->
           /\ IF f.ticket /= push_ticket
              THEN /\ th' = Continue(t, f)
                   /\ UNCHANGED ret
              ELSE IF f.offset = get_offset(f.state) /\ f.capacity < max_capacity_
                   THEN /\ th' = Goto(t, [f EXCEPT !.pc = "ex_lock"])
                        /\ UNCHANGED ret
                   ELSE /\ th' = Return(t)
                        /\ ret' = [ret EXCEPT ![t] = Result("queue_full", NoValue)]
           /\ UNCHANGED <<queueVars, channelVars, notifyVars, historyVars>>
      [] f.pc = "trap" -> FALSE
      [] f.pc \in {"load", "sl_state", "sl_slots", "sl_capacity", "sl_stride", "sl_check"} ->
           try_seqlock_read_section(t, push_ticket)
      [] OTHER -> try_expand(t)

DynTryPop(t) ==
    LET f == Top(t)
        target == dyn_slot_for_ticket(f)
        expected_turn == dequeue_turn(f.ticket - f.offset, f.capacity)
    IN
    CASE f.pc = "turn" ->
           /\ IF turn_of(target) /= expected_turn
              THEN /\ th' = Return(t)
                   /\ ret' = [ret EXCEPT ![t] = Result("queue_empty", NoValue)]
              ELSE /\ th' = Goto(t, [f EXCEPT !.pc = "cas"])
                   /\ UNCHANGED ret
           /\ UNCHANGED <<queueVars, channelVars, notifyVars, historyVars>>
      [] f.pc = "cas" ->
           /\ IF pop_ticket = f.ticket
              THEN /\ pop_ticket' = f.ticket + 1
                   /\ th' = Goto(t, [f EXCEPT !.pc = "move"])
              ELSE /\ th' = Continue(t, f)
                   /\ UNCHANGED pop_ticket
           /\ UNCHANGED <<push_ticket, arr, dyn, channelVars, notifyVars, ret, historyVars>>
      [] f.pc = "move" ->
           /\ arr' = [arr EXCEPT ![target.a][target.i].storage = NoValue]
           /\ th' = Goto(t, [f EXCEPT !.pc = "publish", !.value = value_ptr(target)])
           /\ UNCHANGED <<push_ticket, pop_ticket, dyn, channelVars, notifyVars, ret, historyVars>>
      [] f.pc = "publish" ->
           /\ arr' = [arr EXCEPT ![target.a][target.i].turn = expected_turn + 1]
           /\ th' = TailCall(t, [notify_push_waiters(SlotAddr(target.a, target.i),
                                                    expected_turn + 1) EXCEPT
                         !.result = Result("success", f.value)])
           /\ UNCHANGED ret
           /\ popped' = popped (+) SetToBag({f.value})
           /\ pushed' = WithoutPushed(f.ticket)
           /\ dyn' = [dyn EXCEPT !.resolved =
                         [k \in DOMAIN @ \ {f.ticket} |-> @[k]]]
           /\ UNCHANGED <<push_ticket, pop_ticket, channelVars, notifyVars, todo, accepted,
                          delivered>>
      [] f.pc = "trap" -> FALSE
      [] OTHER -> try_seqlock_read_section(t, pop_ticket)

(***************************************************************************)
(* The growable-queue scenario: producers that retry on queue_full and     *)
(* consumers, on a queue that can still grow.                              *)
(***************************************************************************)
GrowProducers == {"p1", "p2"}
GrowConsumers == {"c1", "c2"}
\* the thread sets of the scenario: two producers against one consumer, or
\* one producer against two consumers
GrowThreads == {{"p1", "p2", "c1"}, {"p1", "c1", "c2"}}
\* the first producer pushes BulkValues values, the other one a single value
BulkValues == 3
GrowValuesOf(t) == [i \in 1..(IF t = "p1" THEN BulkValues ELSE 1) |-> ProducerBase(t) + i]

InitGrowWith(threadsets) ==
    /\ push_ticket = 0
    /\ pop_ticket = 0
    /\ arr = <<AllocatedSlots(InitialCapacity)>>
    /\ dyn = [dslots |-> 1, dcapacity |-> InitialCapacity,
              dstride |-> compute_stride(InitialCapacity), dstate |-> 0,
              closed_arrays |-> [i \in 1..max_closed_arrays_ |-> closed_array],
              resolved |-> <<>>]
    /\ InitRegistries
    /\ wtr = <<>>
    /\ wstat = <<>>
    /\ \E threads \in threadsets :
          /\ th = [t \in threads |->
                      <<[fn |-> IF t \in GrowProducers
                                THEN "dyn_producer" ELSE "dyn_consumer"]>>]
          /\ ret = [t \in threads |-> NoResult]
          /\ todo = [t \in threads |->
                        IF t \in GrowProducers THEN GrowValuesOf(t) ELSE <<>>]
    /\ accepted = EmptyBag
    /\ popped = EmptyBag
    /\ NoChannel

InitGrow == InitGrowWith(GrowThreads)

NextGrow ==
    \/ \E t \in DOMAIN th : Running(t, "dyn_producer") /\ Producer(t)
    \/ \E t \in DOMAIN th : Running(t, "dyn_consumer") /\ Consumer(t)
    \/ \E t \in DOMAIN th : Running(t, "dyn_try_push") /\ DynTryPush(t)
    \/ \E t \in DOMAIN th : Running(t, "dyn_try_pop") /\ DynTryPop(t)
    \/ \E t \in DOMAIN th : Running(t, "notify") /\ Notify(t)

SpecGrow == InitGrow /\ [][NextGrow]_vars

\* C9: in every reachable state of the growable queue push_count - pop_count
\* is in [0, max_capacity].
C9_DepthWithinMaxCapacity ==
    /\ pop_ticket <= push_ticket
    /\ push_ticket - pop_ticket <= max_capacity_

GrowAllValues ==
    UNION {{GrowValuesOf(t)[i] : i \in DOMAIN GrowValuesOf(t)} :
              t \in GrowProducers \cap DOMAIN th}

AllReturned == \A t \in DOMAIN th : Len(th[t]) = 1

\* a try_pop that runs alone on the current pop ticket, every other call
\* having returned, is about to report queue_empty
DrainFinds(t) ==
    /\ \A u \in DOMAIN th \ {t} : Len(th[u]) = 1
    /\ Len(th[t]) = 2
    /\ Top(t).fn = "dyn_try_pop"
    /\ Top(t).pc = "turn"
    /\ Top(t).ticket = pop_ticket
    /\ turn_of(dyn_slot_for_ticket(Top(t)))
          /= dequeue_turn(Top(t).ticket - Top(t).offset, Top(t).capacity)

turn_reached(current_turn, expected_turn) == current_turn - expected_turn >= 0

ArmFrame(r, w) ==
    [fn |-> "arm", r |-> r, w |-> w, pc |-> "check1", full |-> FALSE, attempt |-> 0,
     span |-> 0, offset |-> 0, index |-> 0]

DisarmFrame(r, w) == [fn |-> "disarm", r |-> r, w |-> w, pc |-> "armed", index |-> 0]

\* the first offset in from..span-1 whose channel carries no key_tag, or -1
FirstEmptyOffset(r, start, from, span) ==
    LET empty == {o \in from..(span - 1) :
                     Chan(r, (start + o) % wait_channel_count_).key_tag = ZeroTag}
    IN  IF empty = {} THEN -1 ELSE SetMin(empty)

\* variant: the key of an emptied channel is kept
clear_channel_if_empty_keep(c) == c

clear_channel_if_empty(c) ==
    IF c.size = 0
    THEN [c EXCEPT !.head = NoWaiter, !.turn_ptr = NullPtr, !.expected_turn = 0,
                   !.key_tag = ZeroTag]
    ELSE c

\* remove_waiter_from_channel on the locked channel index of registry r: the
\* waiter records, the channel and the occupied count after it
remove_waiter_from_channel(r, index, w) ==
    IF ~wtr[w].linked
    THEN [wtr |-> wtr, channel |-> Chan(r, index), occupied |-> occupied]
    ELSE LET prev == wtr[w].prev
             next == wtr[w].next
             c == Chan(r, index)
             size == IF c.size > 0 THEN c.size - 1 ELSE 0
         IN  [wtr |-> [x \in DOMAIN wtr |->
                         IF x = w
                         THEN [wtr[x] EXCEPT !.next = NoWaiter, !.prev = NoWaiter,
                                             !.linked = FALSE,
                                             !.channel_index = invalid_channel_index]
                         ELSE IF x = prev /\ x = next
                              THEN [wtr[x] EXCEPT !.next = next, !.prev = prev]
                         ELSE IF x = prev THEN [wtr[x] EXCEPT !.next = next]
                         ELSE IF x = next THEN [wtr[x] EXCEPT !.prev = prev]
                         ELSE wtr[x]],
              channel |-> clear_channel_if_empty(
                              [c EXCEPT !.head = IF prev = NoWaiter THEN next ELSE @,
                                        !.size = size]),
              occupied |-> [occupied EXCEPT ![r] =
                              IF c.size > 0 /\ size = 0 THEN @ - 1 ELSE @]]

Arm(t) ==
    LET f == Top(t)
        r == f.r
        w == f.w
        turn_ptr == wtr[w].turn_ptr
        expected_turn == wtr[w].expected_turn
        key_tag == key_tag_of(turn_ptr, expected_turn)
        start == start_of(turn_ptr, expected_turn)
        reached == turn_reached(TurnAt(turn_ptr), expected_turn)
        c == Chan(r, f.index)
        mine == c.turn_ptr = turn_ptr /\ c.expected_turn = expected_turn
        reserved == [c EXCEPT !.lock = TRUE, !.turn_ptr = turn_ptr,
                              !.expected_turn = expected_turn, !.key_tag = key_tag]
        \* the frame at the start of probe attempt number attempt; the attempts
        \* from 3 on are the two whole-table passes
        Probe(attempt, window) ==
            [f EXCEPT !.pc = "match", !.attempt = attempt, !.full = attempt >= 3,
                      !.offset = 0,
                      !.span = IF attempt >= 3 THEN wait_channel_count_
                               ELSE Max(min_probe_window_, Min(window, max_probe_window_))]
        Fail == /\ th' = Return(t)
                /\ ret' = [ret EXCEPT ![t] = Result("false", NoValue)]
    IN
    CASE f.pc = "check1" ->
           /\ IF reached THEN Fail
              ELSE th' = Goto(t, [f EXCEPT !.pc = "hint"]) /\ UNCHANGED ret
           /\ UNCHANGED <<queueVars, channelVars, notifyVars, historyVars>>
      [] f.pc = "hint" ->
           LET index == wtr[w].channel_hint % wait_channel_count_
               observed_tag == Chan(r, index).key_tag
           IN  /\ th' = IF \/ wtr[w].channel_hint = invalid_channel_index
                           \/ (observed_tag /= ZeroTag /\ observed_tag /= key_tag)
                        THEN Goto(t, Probe(0, probe_window[r]))
                        ELSE Goto(t, [f EXCEPT !.pc = "hint_lock", !.index = index])
               /\ UNCHANGED <<queueVars, channelVars, notifyVars, ret, historyVars>>
      [] f.pc = "hint_lock" ->
           /\ ~c.lock
           /\ IF mine
              THEN /\ channels' = WithChan(r, f.index, [c EXCEPT !.lock = TRUE])
                   /\ th' = Goto(t, [f EXCEPT !.pc = "check2"])
              ELSE IF c.size = 0
              THEN /\ channels' = WithChan(r, f.index, reserved)
                   /\ th' = Goto(t, [f EXCEPT !.pc = "check2"])
              ELSE /\ th' = Goto(t, Probe(0, probe_window[r]))
                   /\ UNCHANGED channels
           /\ UNCHANGED <<queueVars, channelVars, probe_window, occupied, wtr, wstat, ret, historyVars>>
      [] f.pc = "match" ->
           LET found == MatchingOffsets(r, key_tag, start, f.offset, f.span)
           IN  /\ th' = IF found = {}
                        THEN Goto(t, [f EXCEPT !.pc = "empty", !.offset = 0])
                        ELSE Goto(t, [f EXCEPT !.pc = "match_lock",
                                        !.offset = SetMin(found),
                                        !.index = (start + SetMin(found))
                                                     % wait_channel_count_])
               /\ UNCHANGED <<queueVars, channelVars, notifyVars, ret, historyVars>>
      [] f.pc = "match_lock" ->
           /\ ~c.lock
           /\ IF mine
              THEN /\ channels' = WithChan(r, f.index, [c EXCEPT !.lock = TRUE])
                   /\ th' = Goto(t, [f EXCEPT !.pc = "check2"])
              ELSE /\ th' = Goto(t, [f EXCEPT !.pc = "match", !.offset = @ + 1])
                   /\ UNCHANGED channels
           /\ UNCHANGED <<queueVars, channelVars, probe_window, occupied, wtr, wstat, ret, historyVars>>
      [] f.pc = "empty" ->
           LET offset == FirstEmptyOffset(r, start, f.offset, f.span)
               target == Min(max_probe_window_, f.span * 2)
           IN  IF offset >= 0
               THEN /\ th' = Goto(t, [f EXCEPT !.pc = "empty_lock", !.offset = offset,
                                        !.index = (start + offset) % wait_channel_count_])
                    /\ UNCHANGED <<queueVars, channelVars, notifyVars, ret, historyVars>>
               ELSE IF f.full
               THEN /\ Fail
                    /\ UNCHANGED <<queueVars, channelVars, notifyVars, historyVars>>
               ELSE \* maybe_grow_probe_window: the weak exchange may fail
                    /\ \/ /\ f.span < max_probe_window_ /\ probe_window[r] = f.span
                          /\ probe_window' = [probe_window EXCEPT ![r] = target]
                       \/ UNCHANGED probe_window
                    /\ th' = Goto(t, Probe(f.attempt + 1, probe_window'[r]))
                    /\ UNCHANGED <<queueVars, channelVars, channels, occupied, wtr, wstat, ret,
                                   historyVars>>
      [] f.pc = "empty_lock" ->
           /\ ~c.lock
           /\ IF c.size = 0 /\ c.key_tag = ZeroTag
              THEN /\ channels' = WithChan(r, f.index, reserved)
                   /\ th' = Goto(t, [f EXCEPT !.pc = "check2"])
              ELSE /\ th' = Goto(t, [f EXCEPT !.pc = "empty", !.offset = @ + 1])
                   /\ UNCHANGED channels
           /\ UNCHANGED <<queueVars, channelVars, probe_window, occupied, wtr, wstat, ret, historyVars>>
      [] f.pc = "check2" ->
           IF reached
           THEN /\ channels' = WithChan(r, f.index,
                                   unlock_channel(clear_channel_if_empty(c)))
                /\ Fail
                /\ UNCHANGED <<queueVars, channelVars, probe_window, occupied, wtr, wstat, historyVars>>
           ELSE /\ wtr' = [x \in DOMAIN wtr |->
                             IF x = w
                             THEN [wtr[x] EXCEPT !.notifying = FALSE, !.armed = TRUE,
                                                 !.linked = TRUE,
                                                 !.channel_index = f.index,
                                                 !.prev = NoWaiter, !.next = c.head]
                             ELSE IF x = c.head THEN [wtr[x] EXCEPT !.prev = w]
                             ELSE wtr[x]]
                /\ channels' = WithChan(r, f.index,
                                   [c EXCEPT !.head = w, !.size = @ + 1])
                /\ occupied' = [occupied EXCEPT ![r] = IF c.size = 0 THEN @ + 1 ELSE @]
                /\ th' = Goto(t, [f EXCEPT !.pc = "check3"])
                /\ UNCHANGED <<queueVars, channelVars, probe_window, wstat, ret, historyVars>>
      [] f.pc = "check3" ->
           IF reached
           THEN LET removed == remove_waiter_from_channel(r, f.index, w)
                IN  /\ wtr' = [removed.wtr EXCEPT ![w].armed = FALSE]
                    /\ channels' = WithChan(r, f.index,
                                       unlock_channel(removed.channel))
                    /\ occupied' = removed.occupied
                    /\ Fail
                    /\ UNCHANGED <<queueVars, channelVars, probe_window, wstat, historyVars>>
           ELSE /\ channels' = WithChan(r, f.index, unlock_channel(c))
                /\ th' = Return(t)
                /\ ret' = [ret EXCEPT ![t] = Result("true", NoValue)]
                /\ UNCHANGED <<queueVars, channelVars, probe_window, occupied, wtr, wstat, historyVars>>

(***************************************************************************)
(* sender_notify::disarm.                                                  *)
(*   armed  armed.store(false)                                             *)
(*   index  channel_index.load()                                           *)
(*   lock   lock_channel, the removal of a linked waiter, unlock_channel   *)
(*   spin   the loop that waits for notifying to be false                  *)
(***************************************************************************)
Disarm(t) ==
    LET f == Top(t)
        r == f.r
        w == f.w
    IN
    CASE f.pc = "armed" ->
           /\ wtr' = [wtr EXCEPT ![w].armed = FALSE]
           /\ th' = Goto(t, [f EXCEPT !.pc = "index"])
           /\ UNCHANGED <<queueVars, channelVars, channels, probe_window, occupied, wstat, ret,
                          historyVars>>
      [] f.pc = "index" ->
           /\ th' = IF wtr[w].channel_index /= invalid_channel_index
                    THEN Goto(t, [f EXCEPT !.pc = "lock", !.index = wtr[w].channel_index])
                    ELSE Goto(t, [f EXCEPT !.pc = "spin"])
           /\ UNCHANGED <<queueVars, channelVars, notifyVars, ret, historyVars>>
      [] f.pc = "lock" ->
           LET removed == remove_waiter_from_channel(r, f.index, w)
           IN  /\ ~Chan(r, f.index).lock
               /\ wtr' = removed.wtr
               /\ channels' = WithChan(r, f.index, removed.channel)
               /\ occupied' = removed.occupied
               /\ th' = Goto(t, [f EXCEPT !.pc = "spin"])
               /\ UNCHANGED <<queueVars, channelVars, probe_window, wstat, ret, historyVars>>
      [] f.pc = "spin" ->
           /\ ~wtr[w].notifying
           /\ th' = Return(t)
           /\ ret' = [ret EXCEPT ![t] = Result("disarmed", NoValue)]
           /\ wstat' = [wstat EXCEPT ![w].disarmed = TRUE]
           /\ UNCHANGED <<queueVars, channelVars, channels, probe_window, occupied, wtr, historyVars>>

(***************************************************************************)
(* The registry scenario: waiter threads that register on the turn words   *)
(* of a ring and publisher threads that store a turn and notify it.        *)
(***************************************************************************)
\* the capacity of the ring whose turn words are waited on
NotifyCapacity == 8
NotifyWaiters == {"w1", "w2"}
NotifyPublishers == {"n1"}

Registration(turn_ptr, expected_turn, hinted) ==
    [turn_ptr |-> turn_ptr, expected_turn |-> expected_turn,
     channel_hint |-> IF hinted THEN suggest_channel_index(turn_ptr, expected_turn)
                      ELSE invalid_channel_index]

\* the programs of the threads: two waiters that register the same key
\* without a hint; or two keys whose hints name the same channel, registered
\* with their hints, the first waiter moving on to the second key
NotifyPrograms ==
    LET a == SlotAddr(0, 7)
        b == SlotAddr(0, 8)
    IN  {[w1 |-> <<Registration(a, 1, FALSE)>>,
          w2 |-> <<Registration(a, 1, FALSE)>>,
          n1 |-> <<[turn_ptr |-> a, turn_value |-> 1]>>],
         [w1 |-> <<Registration(a, 1, TRUE), Registration(b, 1, TRUE)>>,
          w2 |-> <<Registration(b, 1, TRUE)>>,
          n1 |-> <<[turn_ptr |-> a, turn_value |-> 1],
                   [turn_ptr |-> b, turn_value |-> 1]>>]}

\* waiter w has returned true from arm and has not called disarm
Parked(w) == Len(th[w]) = 1 /\ ret[w].status = "true"

\* the callback of the waiters: it counts the wake
notify_callback(t) ==
    /\ wstat' = [wstat EXCEPT ![Top(t).w].calls = @ + 1]
    /\ th' = Return(t)
    /\ UNCHANGED <<queueVars, channelVars, channels, probe_window, occupied, wtr, ret, historyVars>>

\* a waiter thread: init_waiter and arm for its next registration once the
\* last one failed, was woken or was disarmed; or disarm after arm succeeded
Waiter(t) ==
    LET f == Top(t)
        w == f.w
    IN  \/ /\ todo[t] /= <<>>
           /\ ret[t].status = "true" => wstat[w].calls > 0
           /\ wtr' = [wtr EXCEPT ![w] =
                         [@ EXCEPT !.turn_ptr = Head(todo[t]).turn_ptr,
                                   !.expected_turn = Head(todo[t]).expected_turn,
                                   !.next = NoWaiter, !.prev = NoWaiter,
                                   !.channel_hint = Head(todo[t]).channel_hint,
                                   !.channel_index = invalid_channel_index,
                                   !.armed = FALSE, !.linked = FALSE,
                                   !.notifying = FALSE]]
           /\ wstat' = [wstat EXCEPT ![w] =
                           [arms |-> @.arms + 1, calls |-> 0, disarmed |-> FALSE]]
           /\ th' = Call(t, f, ArmFrame(f.r, w))
           /\ ret' = [ret EXCEPT ![t] = NoResult]
           /\ todo' = [todo EXCEPT ![t] = Tail(@)]
           /\ UNCHANGED <<queueVars, channelVars, channels, probe_window, occupied, accepted, popped, delivered, pushed>>
        \/ /\ ret[t].status = "true"
           /\ th' = Call(t, f, DisarmFrame(f.r, w))
           /\ UNCHANGED <<queueVars, channelVars, notifyVars, ret, historyVars>>

StoreTurn(p, v) ==
    [arr EXCEPT ![(p - ArrayBase(0)) \div 4096]
                 [((p - ArrayBase(0)) % 4096) \div SlotSize].turn = v]

\* the armed waiters that arm has handed back to their threads, with the
\* number of their arm call
ArmedWith(turn_ptr, turn_value) ==
    {<<w, wstat[w].arms>> : w \in {x \in DOMAIN wtr :
        /\ Parked(x) /\ wtr[x].armed
        /\ wtr[x].turn_ptr = turn_ptr /\ wtr[x].expected_turn = turn_value}}

(***************************************************************************)
(* A publisher thread: turn.store(v, release), then notify(&turn, v).  A   *)
(* release store is ordered after the accesses before it, not before the   *)
(* relaxed key_tag loads of notify that follow it: it may become visible   *)
(* to the other threads only after these loads (the lock of a channel is   *)
(* taken by a read-modify-write, which the store does not pass).           *)
(*   store    the store, or the key_tag loads of a notify that finds no    *)
(*            channel while the store is still on its way                  *)
(*   delayed  the store becomes visible                                    *)
(*   notified notify has returned                                          *)
(***************************************************************************)
Publisher(t) ==
    LET f == Top(t)
        key == Head(todo[t])
        tagged == MatchingOffsets(f.r, key_tag_of(key.turn_ptr, key.turn_value),
                                  start_of(key.turn_ptr, key.turn_value),
                                  0, wait_channel_count_)
        called == [f EXCEPT !.key = key,
                            !.snapshot = ArmedWith(key.turn_ptr, key.turn_value)]
    IN
    CASE f.pc = "store" ->
           /\ todo[t] /= <<>>
           /\ todo' = [todo EXCEPT ![t] = Tail(@)]
           /\ \/ /\ arr' = StoreTurn(key.turn_ptr, key.turn_value)
                 /\ th' = Call(t, [called EXCEPT !.pc = "notified"],
                               NotifyFrame(f.r, key.turn_ptr, key.turn_value))
              \/ /\ tagged = {}
                 /\ th' = Goto(t, [called EXCEPT !.pc = "delayed"])
                 /\ UNCHANGED arr
           /\ UNCHANGED <<push_ticket, pop_ticket, dyn, channelVars, notifyVars, ret, accepted, popped, delivered, pushed>>
      [] f.pc = "delayed" ->
           /\ arr' = StoreTurn(f.key.turn_ptr, f.key.turn_value)
           /\ th' = Goto(t, [f EXCEPT !.pc = "notified"])
           /\ UNCHANGED <<push_ticket, pop_ticket, dyn, channelVars, notifyVars, ret, historyVars>>
      [] f.pc = "notified" ->
           /\ th' = Goto(t, [f EXCEPT !.pc = "store"])
           /\ UNCHANGED <<queueVars, channelVars, notifyVars, ret, historyVars>>

InitNotify ==
    /\ push_ticket = 0
    /\ pop_ticket = 0
    /\ arr = <<>> @@ (0 :> AllocatedSlots(NotifyCapacity))
    /\ dyn = NoDyn
    /\ InitRegistries
    /\ wtr = [w \in NotifyWaiters |->
                [turn_ptr |-> NullPtr, expected_turn |-> 0, next |-> NoWaiter,
                 prev |-> NoWaiter, owner |-> w, notify |-> "notify_callback",
                 armed |-> FALSE, linked |-> FALSE, notifying |-> FALSE,
                 channel_hint |-> invalid_channel_index,
                 channel_index |-> invalid_channel_index]]
    /\ wstat = [w \in NotifyWaiters |-> [arms |-> 0, calls |-> 0, disarmed |-> FALSE]]
    /\ th = [t \in NotifyWaiters \cup NotifyPublishers |->
                IF t \in NotifyWaiters
                THEN <<[fn |-> "waiter", w |-> t, r |-> "pop"]>>
                ELSE <<[fn |-> "publisher", r |-> "pop", pc |-> "store",
                        key |-> [turn_ptr |-> NullPtr, turn_value |-> 0],
                        snapshot |-> {}]>>]
    /\ ret = [t \in NotifyWaiters \cup NotifyPublishers |-> NoResult]
    /\ todo \in NotifyPrograms
    /\ accepted = EmptyBag
    /\ popped = EmptyBag
    /\ NoChannel

NextNotify ==
    \/ \E t \in DOMAIN th : Running(t, "waiter") /\ Waiter(t)
    \/ \E t \in DOMAIN th : Running(t, "publisher") /\ Publisher(t)
    \/ \E t \in DOMAIN th : Running(t, "arm") /\ Arm(t)
    \/ \E t \in DOMAIN th : Running(t, "disarm") /\ Disarm(t)
    \/ \E t \in DOMAIN th : Running(t, "notify") /\ Notify(t)
    \/ \E t \in DOMAIN th : Running(t, "notify_callback") /\ notify_callback(t)

SpecNotify == InitNotify /\ [][NextNotify]_vars

\* the publishers whose notify has returned
Notified == {t \in DOMAIN th : /\ Len(th[t]) = 1 /\ th[t][1].fn = "publisher"
                               /\ th[t][1].pc = "notified"}

\* C2: once a publisher has stored the turn of a key and its notify of that
\* key has returned, every waiter that arm has accepted for the key has had
\* its callback invoked: none is left linked and un-woken
C2_NoLostWakeup ==
    \A t \in Notified : \A w \in DOMAIN wtr :
        ( /\ Parked(w)
          /\ wtr[w].turn_ptr = th[t][1].key.turn_ptr
          /\ wtr[w].expected_turn = th[t][1].key.turn_value )
        => wstat[w].calls > 0

\* C3: the callback of a waiter is never being invoked once the waiter's
\* disarm has returned
C3_DisarmIsBarrier ==
    \A t \in DOMAIN th :
        Running(t, "notify_callback") => ~wstat[Top(t).w].disarmed

\* C4: when notify of a key has returned, each waiter that was armed with
\* the key when notify was called, and that has not been disarmed since, is
\* unlinked, has armed = false and has had its callback invoked exactly once
C4_NotifyDetachesEveryWaiter ==
    \A t \in Notified : \A x \in th[t][1].snapshot :
        (wstat[x[1]].arms = x[2] /\ Parked(x[1]))
        => /\ ~wtr[x[1]].linked
           /\ ~wtr[x[1]].armed
           /\ wstat[x[1]].calls = 1

(***************************************************************************)
(* channel<value_t>: a bounded queue, the closed flag, the close epoch and *)
(* the registry of the close waiters.  An async push or pop is a when_any  *)
(* of two children: the queue's push_wait_sender or pop_wait_sender and    *)
(* the channel's close_wait_sender.                                        *)
(***************************************************************************)
\* the rounds of the spin loop of run_attempt (async_spin_retry_limit_ rounds
\* in the source) before the last try and the registration
SpinRounds == 0

QueueWaiter(o) == o \o "q"
CloseWaiter(o) == o \o "c"

\* the operation states of an async operation: when_any's and its children's
OperationState(kind, value) ==
    [kind |-> kind, value |-> value,
     emplaced |-> FALSE, result |-> NoResult, count |-> 2, stop |-> FALSE,
     final |-> NoResult,
     \* history: the sender was started, how often the result was delivered,
     \* and whether a try_push or try_pop of the queue child has succeeded
     started |-> kind /= "none", finals |-> 0, effect |-> FALSE,
     \* sets: how often the child has called set_value / set_stopped;
     \* stop_armed: the waiter was armed when the stop callback began
     q |-> [waiting_ |-> FALSE, completed |-> FALSE, stop_requested |-> FALSE,
            scheduled_ |-> FALSE, running_ |-> FALSE, on_stop_ |-> FALSE, sets |-> 0,
            stop_armed |-> FALSE],
     c |-> [waiting |-> FALSE, completed |-> FALSE, stop_requested |-> FALSE,
            on_stop |-> FALSE, sets |-> 0]]

\* everything but ops, th and ret
aroundOps == <<queueVars, closed, close_epoch, notifyVars, historyVars>>

\* the registry a queue child waits in
WaitRegistry(o) == IF ops[o].kind = "pop" THEN "pop" ELSE "push"

\* variant: the closed flag is not consulted
try_push_impl_open(t) ==
    /\ th' = TailCall(t, TryPushFrame(Top(t).value))
    /\ UNCHANGED <<queueVars, channelVars, notifyVars, ret, historyVars>>

try_push_impl(t) ==
    /\ IF closed
       THEN th' = Return(t) /\ ret' = [ret EXCEPT ![t] = Result("channel_closed", NoValue)]
       ELSE th' = TailCall(t, TryPushFrame(Top(t).value)) /\ UNCHANGED ret
    /\ UNCHANGED <<queueVars, channelVars, notifyVars, historyVars>>

\* the part of try_pop_impl after queue.try_pop() has returned
try_pop_impl(t) ==
    /\ th' = Return(t)
    /\ ret' = [ret EXCEPT ![t] = IF @.status = "queue_empty" /\ closed
                                 THEN Result("channel_closed", NoValue) ELSE @]
    /\ delivered' = IF ret[t].status = "success"
                    THEN delivered (+) SetToBag({ret[t].value}) ELSE delivered
    /\ UNCHANGED <<queueVars, channelVars, notifyVars, todo, accepted, popped, pushed>>

\* variant: the flag is stored, not exchanged
close_impl_store(t) ==
    LET f == Top(t)
    IN
    CASE f.pc = "exchange" ->
           /\ closed' = TRUE
           /\ th' = Goto(t, [f EXCEPT !.pc = "fetch_add"])
           /\ UNCHANGED <<queueVars, close_epoch, ops, notifyVars, ret, historyVars>>
      [] f.pc = "fetch_add" ->
           /\ close_epoch' = close_epoch + 1
           /\ th' = TailCall(t, [NotifyFrame("close", close_epoch_ptr, close_epoch + 1)
                                    EXCEPT !.result = Result("true", NoValue)])
           /\ UNCHANGED <<queueVars, closed, ops, notifyVars, ret, historyVars>>

close_impl(t) ==
    LET f == Top(t)
    IN
    CASE f.pc = "exchange" ->
           /\ closed' = TRUE
           /\ IF closed
              THEN th' = Return(t) /\ ret' = [ret EXCEPT ![t] = Result("false", NoValue)]
              ELSE th' = Goto(t, [f EXCEPT !.pc = "fetch_add"]) /\ UNCHANGED ret
           /\ UNCHANGED <<queueVars, close_epoch, ops, notifyVars, historyVars>>
      [] f.pc = "fetch_add" ->
           /\ close_epoch' = close_epoch + 1
           /\ th' = TailCall(t, [NotifyFrame("close", close_epoch_ptr, close_epoch + 1)
                                    EXCEPT !.result = Result("true", NoValue)])
           /\ UNCHANGED <<queueVars, closed, ops, notifyVars, ret, historyVars>>

(***************************************************************************)
(* push_wait_sender / pop_wait_sender ::operation_state of operation o.    *)
(***************************************************************************)
ScheduleAttemptFrame(o) == [fn |-> "schedule_attempt", o |-> o, pc |-> "scheduled"]

\* start(): the stop callback is registered, then schedule_attempt()
queue_start(t) ==
    LET o == Top(t).o
    IN  /\ ops' = [ops EXCEPT ![o].q.on_stop_ = TRUE,
                              ![o].q.stop_requested = @ \/ ops[o].stop]
        /\ th' = TailCall(t, ScheduleAttemptFrame(o))
        /\ UNCHANGED <<aroundOps, ret>>

\* stop_handler: stop_requested.store(true), then schedule_attempt()
queue_stop_handler(t) ==
    LET o == Top(t).o
    IN  /\ ops' = [ops EXCEPT ![o].q.stop_requested = TRUE,
                              ![o].q.stop_armed = wtr[QueueWaiter(o)].armed]
        /\ th' = TailCall(t, ScheduleAttemptFrame(o))
        /\ UNCHANGED <<aroundOps, ret>>

\* notify_waiter: waiting_.compare_exchange_strong(true, false), then
\* schedule_attempt()
queue_notify_waiter(t) ==
    LET o == Top(t).owner
    IN  /\ ops' = [ops EXCEPT ![o].q.waiting_ = FALSE]
        /\ th' = IF ops[o].q.waiting_ THEN TailCall(t, ScheduleAttemptFrame(o))
                 ELSE Return(t)
        /\ UNCHANGED <<aroundOps, ret>>

\* variant: the loop is entered whatever running_ was
schedule_attempt_reentrant(t) ==
    LET f == Top(t)
        o == f.o
    IN
    CASE f.pc = "scheduled" ->
           /\ ops' = [ops EXCEPT ![o].q.scheduled_ = TRUE]
           /\ th' = Goto(t, [f EXCEPT !.pc = "running"])
           /\ UNCHANGED <<aroundOps, ret>>
      [] f.pc = "running" ->
           \* running_.exchange(true), before the loop and at its end
           /\ ops' = [ops EXCEPT ![o].q.running_ = TRUE]
           /\ th' = Goto(t, [f EXCEPT !.pc = "clear"])
           /\ UNCHANGED <<aroundOps, ret>>
      [] f.pc = "clear" ->
           /\ ops' = [ops EXCEPT ![o].q.scheduled_ = FALSE]
           /\ th' = Call(t, [f EXCEPT !.pc = "status"],
                         [fn |-> "run_attempt", o |-> o, pc |-> "completed", attempt |-> 0])
           /\ UNCHANGED <<aroundOps, ret>>
      [] f.pc = "status" ->
           IF ret[t].status /= "nullopt"
           THEN /\ th' = TailCall(t, [fn |-> "complete", o |-> o, pc |-> "completed",
                                      status |-> ret[t]])
                /\ UNCHANGED <<aroundOps, ops, ret>>
           ELSE /\ ops' = [ops EXCEPT ![o].q.running_ = FALSE]
                /\ th' = Goto(t, [f EXCEPT !.pc = "recheck"])
                /\ UNCHANGED <<aroundOps, ret>>
      [] f.pc = "recheck" ->
           /\ th' = IF ops[o].q.scheduled_ THEN Goto(t, [f EXCEPT !.pc = "running"])
                    ELSE Return(t)
           /\ UNCHANGED <<aroundOps, ops, ret>>

schedule_attempt(t) ==
    LET f == Top(t)
        o == f.o
    IN
    CASE f.pc = "scheduled" ->
           /\ ops' = [ops EXCEPT ![o].q.scheduled_ = TRUE]
           /\ th' = Goto(t, [f EXCEPT !.pc = "running"])
           /\ UNCHANGED <<aroundOps, ret>>
      [] f.pc = "running" ->
           \* running_.exchange(true), before the loop and at its end
           /\ ops' = [ops EXCEPT ![o].q.running_ = TRUE]
           /\ th' = IF ops[o].q.running_ THEN Return(t)
                    ELSE Goto(t, [f EXCEPT !.pc = "clear"])
           /\ UNCHANGED <<aroundOps, ret>>
      [] f.pc = "clear" ->
           /\ ops' = [ops EXCEPT ![o].q.scheduled_ = FALSE]
           /\ th' = Call(t, [f EXCEPT !.pc = "status"],
                         [fn |-> "run_attempt", o |-> o, pc |-> "completed", attempt |-> 0])
           /\ UNCHANGED <<aroundOps, ret>>
      [] f.pc = "status" ->
           IF ret[t].status /= "nullopt"
           THEN /\ th' = TailCall(t, [fn |-> "complete", o |-> o, pc |-> "completed",
                                      status |-> ret[t]])
                /\ UNCHANGED <<aroundOps, ops, ret>>
           ELSE /\ ops' = [ops EXCEPT ![o].q.running_ = FALSE]
                /\ th' = Goto(t, [f EXCEPT !.pc = "recheck"])
                /\ UNCHANGED <<aroundOps, ret>>
      [] f.pc = "recheck" ->
           /\ th' = IF ops[o].q.scheduled_ THEN Goto(t, [f EXCEPT !.pc = "running"])
                    ELSE Return(t)
           /\ UNCHANGED <<aroundOps, ops, ret>>

\* make_push_wait_registration / make_pop_wait_registration
make_wait_registration(kind) ==
    LET ticket == IF kind = "pop" THEN pop_ticket ELSE push_ticket
        turn_ptr == SlotAddr(slots_, slot_index(ticket))
        expected_turn == IF kind = "pop" THEN dequeue_turn_for_ticket(ticket)
                         ELSE enqueue_turn_for_ticket(ticket)
    IN  [turn_ptr |-> turn_ptr, expected_turn |-> expected_turn,
         channel_hint |-> suggest_channel_index(turn_ptr, expected_turn)]

run_attempt(t) ==
    LET f == Top(t)
        o == f.o
        w == QueueWaiter(o)
        Nullopt == /\ th' = Return(t)
                   /\ ret' = [ret EXCEPT ![t] = Result("nullopt", NoValue)]
        try == IF ops[o].kind = "pop" THEN TryPopFrame ELSE TryPushFrame(ops[o].value)
    IN
    CASE f.pc = "completed" ->
           /\ IF ops[o].q.completed THEN Nullopt
              ELSE th' = Goto(t, [f EXCEPT !.pc = "stop_requested"]) /\ UNCHANGED ret
           /\ UNCHANGED <<aroundOps, ops>>
      [] f.pc = "stop_requested" ->
           /\ IF ops[o].q.stop_requested
              THEN th' = Return(t) /\ ret' = [ret EXCEPT ![t] = Result("canceled", NoValue)]
              ELSE th' = Call(t, [f EXCEPT !.pc = "tried"], try) /\ UNCHANGED ret
           /\ UNCHANGED <<aroundOps, ops>>
      [] f.pc = "tried" ->
           \* the status of try_push / try_pop is in ret
           /\ th' = IF ret[t].status \notin {"queue_empty", "queue_full"} THEN Return(t)
                    ELSE IF f.attempt < SpinRounds
                    THEN Call(t, [f EXCEPT !.attempt = @ + 1], try)
                    ELSE Goto(t, [f EXCEPT !.pc = "register"])
           /\ ops' = [ops EXCEPT ![o].effect = @ \/ ret[t].status = "success"]
           /\ UNCHANGED <<aroundOps, ret>>
      [] f.pc = "register" ->
           LET registration == make_wait_registration(ops[o].kind)
           IN  /\ wtr' = [wtr EXCEPT ![w] =
                             [@ EXCEPT !.turn_ptr = registration.turn_ptr,
                                       !.expected_turn = registration.expected_turn,
                                       !.channel_hint = registration.channel_hint,
                                       !.channel_index = invalid_channel_index,
                                       !.next = NoWaiter, !.prev = NoWaiter]]
               /\ th' = Goto(t, [f EXCEPT !.pc = "waiting"])
               /\ UNCHANGED <<queueVars, channelVars, channels, probe_window, occupied,
                              wstat, ret, historyVars>>
      [] f.pc = "waiting" ->
           /\ ops' = [ops EXCEPT ![o].q.waiting_ = TRUE]
           /\ th' = Call(t, [f EXCEPT !.pc = "armed"], ArmFrame(WaitRegistry(o), w))
           /\ UNCHANGED <<aroundOps, ret>>
      [] f.pc = "armed" ->
           /\ IF ret[t].status = "false"
              THEN th' = Goto(t, [f EXCEPT !.pc = "not_waiting"]) /\ UNCHANGED ret
              ELSE Nullopt
           /\ UNCHANGED <<aroundOps, ops>>
      [] f.pc = "not_waiting" ->
           /\ ops' = [ops EXCEPT ![o].q.waiting_ = FALSE]
           /\ th' = Goto(t, [f EXCEPT !.pc = "scheduled"])
           /\ UNCHANGED <<aroundOps, ret>>
      [] f.pc = "scheduled" ->
           /\ ops' = [ops EXCEPT ![o].q.scheduled_ = TRUE]
           /\ Nullopt
           /\ UNCHANGED aroundOps

\* the frame of exec::when_any's completion for a child of operation o;
\* status "stopped" stands for set_stopped
WhenAnyNotifyFrame(o, status) ==
    [fn |-> "when_any_notify", o |-> o, status |-> status, pc |-> "emplace", pending |-> {}]

complete(t) ==
    LET f == Top(t)
        o == f.o
        set_value == WhenAnyNotifyFrame(o, f.status)
    IN
    CASE f.pc = "completed" ->
           /\ ops' = [ops EXCEPT ![o].q.completed = TRUE]
           /\ th' = IF ops[o].q.completed THEN Return(t)
                    ELSE Goto(t, [f EXCEPT !.pc = "waiting"])
           /\ UNCHANGED <<aroundOps, ret>>
      [] f.pc = "waiting" ->
           /\ ops' = [ops EXCEPT ![o].q.waiting_ = FALSE, ![o].q.sets = @ + 1]
           /\ th' = IF ops[o].q.waiting_
                    THEN Call(t, set_value, DisarmFrame(WaitRegistry(o), QueueWaiter(o)))
                    ELSE TailCall(t, set_value)
           /\ UNCHANGED <<aroundOps, ret>>

(***************************************************************************)
(* channel::close_wait_sender::operation_state of operation o.             *)
(***************************************************************************)
\* complete_value(status), or complete_stopped() for status "stopped"
CompleteValueFrame(o, status) ==
    [fn |-> "complete_value", o |-> o, pc |-> "completed", status |-> status]

ChannelClosed == Result("channel_closed", NoValue)
Stopped == Result("stopped", NoValue)

\* variant: completed is set but its old value is not looked at
complete_value_again(t) ==
    LET f == Top(t)
        o == f.o
        set_value == WhenAnyNotifyFrame(o, f.status)
    IN
    CASE f.pc = "completed" ->
           /\ ops' = [ops EXCEPT ![o].c.completed = TRUE]
           /\ th' = Goto(t, [f EXCEPT !.pc = "waiting"])
           /\ UNCHANGED <<aroundOps, ret>>
      [] f.pc = "waiting" ->
           /\ ops' = [ops EXCEPT ![o].c.waiting = FALSE, ![o].c.sets = @ + 1]
           /\ th' = IF ops[o].c.waiting
                    THEN Call(t, set_value, DisarmFrame("close", CloseWaiter(o)))
                    ELSE TailCall(t, set_value)
           /\ UNCHANGED <<aroundOps, ret>>

complete_value(t) ==
    LET f == Top(t)
        o == f.o
        set_value == WhenAnyNotifyFrame(o, f.status)
    IN
    CASE f.pc = "completed" ->
           /\ ops' = [ops EXCEPT ![o].c.completed = TRUE]
           /\ th' = IF ops[o].c.completed THEN Return(t)
                    ELSE Goto(t, [f EXCEPT !.pc = "waiting"])
           /\ UNCHANGED <<aroundOps, ret>>
      [] f.pc = "waiting" ->
           /\ ops' = [ops EXCEPT ![o].c.waiting = FALSE, ![o].c.sets = @ + 1]
           /\ th' = IF ops[o].c.waiting
                    THEN Call(t, set_value, DisarmFrame("close", CloseWaiter(o)))
                    ELSE TailCall(t, set_value)
           /\ UNCHANGED <<aroundOps, ret>>

\* on_stop_requested: stop_requested.store(true), then complete_stopped()
on_stop_requested(t) ==
    LET o == Top(t).o
    IN  /\ ops' = [ops EXCEPT ![o].c.stop_requested = TRUE]
        /\ th' = TailCall(t, CompleteValueFrame(o, Stopped))
        /\ UNCHANGED <<aroundOps, ret>>

\* notify_waiter: waiting.compare_exchange_strong(true, false), then
\* complete_value(channel_closed)
close_notify_waiter(t) ==
    LET o == Top(t).owner
    IN  /\ ops' = [ops EXCEPT ![o].c.waiting = FALSE]
        /\ th' = IF ops[o].c.waiting THEN TailCall(t, CompleteValueFrame(o, ChannelClosed))
                 ELSE Return(t)
        /\ UNCHANGED <<aroundOps, ret>>

close_start(t) ==
    LET f == Top(t)
        o == f.o
        w == CloseWaiter(o)
        OnStopRequested == [fn |-> "on_stop_requested", o |-> o]
    IN
    CASE f.pc = "stop_requested" ->
           /\ th' = IF ops[o].stop THEN TailCall(t, CompleteValueFrame(o, Stopped))
                    ELSE Goto(t, [f EXCEPT !.pc = "emplace"])
           /\ UNCHANGED <<aroundOps, ops, ret>>
      [] f.pc = "emplace" ->
           \* a stop requested by now runs the handler at once
           /\ ops' = [ops EXCEPT ![o].c.on_stop = TRUE]
           /\ th' = IF ops[o].stop THEN TailCall(t, OnStopRequested)
                    ELSE Goto(t, [f EXCEPT !.pc = "closed"])
           /\ UNCHANGED <<aroundOps, ret>>
      [] f.pc = "closed" ->
           /\ th' = IF closed THEN TailCall(t, CompleteValueFrame(o, ChannelClosed))
                    ELSE Goto(t, [f EXCEPT !.pc = "epoch"])
           /\ UNCHANGED <<aroundOps, ops, ret>>
      [] f.pc = "epoch" ->
           /\ wtr' = [wtr EXCEPT ![w] =
                         [@ EXCEPT !.turn_ptr = close_epoch_ptr,
                                   !.expected_turn = close_epoch + 1,
                                   !.channel_hint = suggest_channel_index(
                                                        close_epoch_ptr, close_epoch + 1),
                                   !.channel_index = invalid_channel_index,
                                   !.next = NoWaiter, !.prev = NoWaiter]]
           /\ th' = Goto(t, [f EXCEPT !.pc = "waiting"])
           /\ UNCHANGED <<queueVars, channelVars, channels, probe_window, occupied,
                          wstat, ret, historyVars>>
      [] f.pc = "waiting" ->
           /\ ops' = [ops EXCEPT ![o].c.waiting = TRUE]
           /\ th' = Call(t, [f EXCEPT !.pc = "armed"], ArmFrame("close", w))
           /\ UNCHANGED <<aroundOps, ret>>
      [] f.pc = "armed" ->
           IF ret[t].status = "false"
           THEN /\ ops' = [ops EXCEPT ![o].c.waiting = FALSE]
                /\ th' = TailCall(t, CompleteValueFrame(o, ChannelClosed))
                /\ UNCHANGED <<aroundOps, ret>>
           ELSE /\ th' = IF ops[o].c.stop_requested THEN TailCall(t, OnStopRequested)
                         ELSE Return(t)
                /\ UNCHANGED <<aroundOps, ops, ret>>

(***************************************************************************)
(* exec::when_any over the two children of operation o, with the adaptors  *)
(* of make_push_sender / make_pop_sender behind it.  The first child that  *)
(* completes with a value gives the result and requests stop of the        *)
(* others; the last child to complete delivers the result.                 *)
(*   emplace       the result is taken if it is the first                  *)
(*   request_stop  the stop source is set; its callbacks are collected     *)
(*   invoke        the stop callbacks run, in any order                    *)
(*   count         this child is counted as completed                      *)
(*   deliver       upon_stopped and then(): a pop that ends with           *)
(*                 channel_closed tries queue.try_pop() once more          *)
(*   drained       the result of that try_pop                              *)
(***************************************************************************)
when_any_notify(t) ==
    LET f == Top(t)
        o == f.o
        result == IF ops[o].emplaced THEN ops[o].result ELSE Result("canceled", NoValue)
        Deliver(final) ==
            /\ ops' = [ops EXCEPT ![o].final = final, ![o].finals = @ + 1]
            /\ delivered' = IF ops[o].kind = "pop" /\ final.status = "success"
                            THEN delivered (+) SetToBag({final.value}) ELSE delivered
            /\ th' = Return(t)
            /\ UNCHANGED <<queueVars, closed, close_epoch, notifyVars, ret, todo,
                           accepted, popped, pushed>>
    IN
    CASE f.pc = "emplace" ->
           IF f.status /= Stopped /\ ~ops[o].emplaced
           THEN /\ ops' = [ops EXCEPT ![o].emplaced = TRUE, ![o].result = f.status]
                /\ th' = Goto(t, [f EXCEPT !.pc = "request_stop"])
                /\ UNCHANGED <<aroundOps, ret>>
           ELSE /\ th' = Goto(t, [f EXCEPT !.pc = "count"])
                /\ UNCHANGED <<aroundOps, ops, ret>>
      [] f.pc = "request_stop" ->
           /\ ops' = [ops EXCEPT ![o].stop = TRUE]
           /\ th' = IF ops[o].stop THEN Goto(t, [f EXCEPT !.pc = "count"])
                    ELSE Goto(t, [f EXCEPT !.pc = "invoke",
                                    !.pending = {x \in {"q", "c"} :
                                        IF x = "q" THEN ops[o].q.on_stop_
                                        ELSE ops[o].c.on_stop}])
           /\ UNCHANGED <<aroundOps, ret>>
      [] f.pc = "invoke" ->
           /\ IF f.pending = {}
              THEN th' = Goto(t, [f EXCEPT !.pc = "count"])
              ELSE \E x \in f.pending :
                      th' = Call(t, [f EXCEPT !.pending = @ \ {x}],
                                 [fn |-> IF x = "q" THEN "queue_stop_handler"
                                         ELSE "on_stop_requested", o |-> o])
           /\ UNCHANGED <<aroundOps, ops, ret>>
      [] f.pc = "count" ->
           /\ ops' = [ops EXCEPT ![o].count = @ - 1]
           /\ th' = IF ops[o].count = 1 THEN Goto(t, [f EXCEPT !.pc = "deliver"])
                    ELSE Return(t)
           /\ UNCHANGED <<aroundOps, ret>>
      [] f.pc = "deliver" ->
           IF ops[o].kind = "pop" /\ result = ChannelClosed
           THEN /\ th' = Call(t, [f EXCEPT !.pc = "drained"], TryPopFrame)
                /\ UNCHANGED <<aroundOps, ops, ret>>
           ELSE Deliver(result)
      [] f.pc = "drained" ->
           Deliver(IF ret[t].status = "queue_empty" THEN ChannelClosed ELSE ret[t])

(***************************************************************************)
(* The channel scenario.  A thread issues the calls of its program one     *)
(* after the other; an async push or pop is its last call.  Its frame      *)
(* records the calls it has made and, for all but the last, what they      *)
(* returned (the last call's result is in ret), and whether some close()   *)
(* had returned true when the last call was made.                          *)
(***************************************************************************)
ChannelThreads == {"p1", "c1", "x1"}

\* the close() calls that have returned, as <<thread, number of the call>>,
\* with the status they returned
CloseReturns ==
    UNION {{<<t, i>> : i \in {j \in DOMAIN th[t][1].made :
                                /\ th[t][1].made[j] = "close"
                                /\ j < Len(th[t][1].made) \/ Len(th[t]) = 1}} :
           t \in {u \in DOMAIN th : th[u][1].fn = "channel_thread"}}

CloseStatus(x) ==
    IF x[2] < Len(th[x[1]][1].made) THEN th[x[1]][1].got[x[2]] ELSE ret[x[1]].status

\* some close() has returned true
CloseWon == \E x \in CloseReturns : CloseStatus(x) = "true"

\* the call thread t has just returned from is a pop that began after a
\* close() had returned true, and it returned channel_closed
Drained(t) ==
    /\ th[t][1].made /= <<>>
    /\ th[t][1].made[Len(th[t][1].made)] \in {"try_pop", "pop"}
    /\ th[t][1].after
    /\ ret[t].status = "channel_closed"

ChannelPrograms ==
    {[p1 |-> <<[call |-> "try_push", value |-> 11]>>,
      c1 |-> <<[call |-> "pop", value |-> NoValue]>>,
      x1 |-> <<[call |-> "close", value |-> NoValue]>>],
     [p1 |-> <<[call |-> "try_push", value |-> 11], [call |-> "push", value |-> 12]>>,
      c1 |-> <<[call |-> "try_pop", value |-> NoValue]>>,
      x1 |-> <<[call |-> "close", value |-> NoValue]>>],
     [p1 |-> <<[call |-> "try_push", value |-> 11]>>,
      c1 |-> <<[call |-> "pop", value |-> NoValue]>>,
      x1 |-> <<[call |-> "try_pop", value |-> NoValue]>>],
     [p1 |-> <<[call |-> "close", value |-> NoValue], [call |-> "close", value |-> NoValue]>>,
      c1 |-> <<[call |-> "pop", value |-> NoValue]>>,
      x1 |-> <<[call |-> "close", value |-> NoValue]>>],
     [p1 |-> <<[call |-> "try_push", value |-> 11], [call |-> "try_push", value |-> 12]>>,
      c1 |-> <<[call |-> "try_pop", value |-> NoValue]>>,
      x1 |-> <<[call |-> "close", value |-> NoValue]>>],
     [p1 |-> <<[call |-> "try_push", value |-> 11]>>,
      c1 |-> <<[call |-> "try_pop", value |-> NoValue], [call |-> "try_pop", value |-> NoValue]>>,
      x1 |-> <<[call |-> "close", value |-> NoValue]>>],
     [p1 |-> <<[call |-> "try_push", value |-> 11]>>,
      c1 |-> <<[call |-> "pop", value |-> NoValue]>>,
      x1 |-> <<[call |-> "close", value |-> NoValue],
               [call |-> "pop_callback", value |-> NoValue, stop_requested |-> TRUE]>>]}

ChannelThread(t) ==
    LET call == Head(todo[t])
        Frames(frames) ==
            [th EXCEPT ![t] =
                <<[th[t][1] EXCEPT !.made = Append(@, call.call),
                                   !.after = CloseWon,
                                   !.drained = @ \/ Drained(t),
                                   !.got = IF th[t][1].made = <<>> THEN <<>>
                                           ELSE Append(@, ret[t].status)]>> \o frames]
        kind == IF call.call \in {"push", "push_callback"} THEN "push" ELSE "pop"
        \* dispatch_token with a callback token whose stop token is requested:
        \* the handler is invoked with canceled and no sender is made
        canceled == /\ call.call \in {"push_callback", "pop_callback"}
                    /\ call.stop_requested
    IN  /\ todo[t] /= <<>>
        /\ todo' = [todo EXCEPT ![t] = Tail(@)]
        /\ ops' = IF call.call \in {"push", "pop", "push_callback", "pop_callback"}
                  THEN [ops EXCEPT ![t] =
                           IF canceled
                           THEN [OperationState(kind, call.value)
                                    EXCEPT !.started = FALSE, !.finals = 1,
                                           !.final = Result("canceled", NoValue)]
                           ELSE OperationState(kind, call.value)]
                  ELSE ops
        /\ th' = CASE canceled -> Frames(<<>>)
                   [] call.call = "try_push" ->
                        Frames(<<[fn |-> "try_push_impl", value |-> call.value]>>)
                   [] call.call = "try_pop" ->
                        Frames(<<[fn |-> "try_pop_impl"], TryPopFrame>>)
                   [] call.call = "close" ->
                        Frames(<<[fn |-> "close_impl", pc |-> "exchange"]>>)
                   [] OTHER ->
                        \* when_any starts the queue child, then the close child
                        Frames(<<[fn |-> "close_start", o |-> t, pc |-> "stop_requested"],
                                 [fn |-> "queue_start", o |-> t]>>)
        /\ UNCHANGED <<queueVars, closed, close_epoch, notifyVars, ret, accepted, popped,
                       delivered, pushed>>

InitChannel ==
    /\ push_ticket = 0
    /\ pop_ticket = 0
    /\ arr = <<>> @@ (slots_ :> AllocatedSlots(Capacity))
    /\ dyn = NoDyn
    /\ InitRegistries
    /\ wtr = [w \in {QueueWaiter(o) : o \in ChannelThreads}
                    \cup {CloseWaiter(o) : o \in ChannelThreads} |->
                [turn_ptr |-> NullPtr, expected_turn |-> 0, next |-> NoWaiter,
                 prev |-> NoWaiter,
                 owner |-> CHOOSE o \in ChannelThreads : w \in {QueueWaiter(o), CloseWaiter(o)},
                 notify |-> IF w \in {QueueWaiter(o) : o \in ChannelThreads}
                            THEN "queue_notify_waiter" ELSE "close_notify_waiter",
                 armed |-> FALSE, linked |-> FALSE, notifying |-> FALSE,
                 channel_hint |-> invalid_channel_index,
                 channel_index |-> invalid_channel_index]]
    /\ wstat = [w \in {QueueWaiter(o) : o \in ChannelThreads}
                      \cup {CloseWaiter(o) : o \in ChannelThreads} |->
                  [arms |-> 0, calls |-> 0, disarmed |-> FALSE]]
    /\ th = [t \in ChannelThreads |->
                <<[fn |-> "channel_thread", made |-> <<>>, got |-> <<>>, after |-> FALSE,
                  drained |-> FALSE]>>]
    /\ ret = [t \in ChannelThreads |-> NoResult]
    /\ todo \in ChannelPrograms
    /\ accepted = EmptyBag
    /\ popped = EmptyBag
    /\ closed = FALSE
    /\ close_epoch = 0
    /\ ops = [o \in ChannelThreads |-> OperationState("none", NoValue)]
    /\ delivered = EmptyBag
    /\ pushed = <<>>

NextChannel ==
    \/ \E t \in DOMAIN th : Running(t, "channel_thread") /\ ChannelThread(t)
    \/ \E t \in DOMAIN th : Running(t, "try_push_impl") /\ try_push_impl(t)
    \/ \E t \in DOMAIN th : Running(t, "try_pop_impl") /\ try_pop_impl(t)
    \/ \E t \in DOMAIN th : Running(t, "close_impl") /\ close_impl(t)
    \/ \E t \in DOMAIN th : Running(t, "try_push") /\ TryPush(t)
    \/ \E t \in DOMAIN th : Running(t, "try_pop") /\ TryPop(t)
    \/ \E t \in DOMAIN th : Running(t, "notify") /\ Notify(t)
    \/ \E t \in DOMAIN th : Running(t, "arm") /\ Arm(t)
    \/ \E t \in DOMAIN th : Running(t, "disarm") /\ Disarm(t)
    \/ \E t \in DOMAIN th : Running(t, "queue_start") /\ queue_start(t)
    \/ \E t \in DOMAIN th : Running(t, "queue_stop_handler") /\ queue_stop_handler(t)
    \/ \E t \in DOMAIN th : Running(t, "queue_notify_waiter") /\ queue_notify_waiter(t)
    \/ \E t \in DOMAIN th : Running(t, "schedule_attempt") /\ schedule_attempt(t)
    \/ \E t \in DOMAIN th : Running(t, "run_attempt") /\ run_attempt(t)
    \/ \E t \in DOMAIN th : Running(t, "complete") /\ complete(t)
    \/ \E t \in DOMAIN th : Running(t, "close_start") /\ close_start(t)
    \/ \E t \in DOMAIN th : Running(t, "complete_value") /\ complete_value(t)
    \/ \E t \in DOMAIN th : Running(t, "on_stop_requested") /\ on_stop_requested(t)
    \/ \E t \in DOMAIN th : Running(t, "close_notify_waiter") /\ close_notify_waiter(t)
    \/ \E t \in DOMAIN th : Running(t, "when_any_notify") /\ when_any_notify(t)

SpecChannel == InitChannel /\ [][NextChannel]_vars

\* every call of every thread has returned
ChannelIdle ==
    \A t \in DOMAIN th :
        Len(th[t]) = 1 /\ th[t][1].fn = "channel_thread" /\ todo[t] = <<>>

\* C5: once every call has returned, the values removed from the ring are
\* the values the pops handed to their callers, each of them once
C5_NoValueLost == ChannelIdle => popped = delivered

\* C6: no step advances push_ticket while the closed flag is set
C6_NoEnqueueAfterClose == [][closed => push_ticket' = push_ticket]_vars

\* C7: once close() and every other call have returned, no async push or
\* pop is left without its result
C7_CloseWakesPending ==
    (ChannelIdle /\ closed) =>
        \A o \in DOMAIN ops : ops[o].kind /= "none" => ops[o].final /= NoResult

(***************************************************************************)
(* Both rings: the bounded queue's scenario or the growable queue's.       *)
(***************************************************************************)
InitRings == Init \/ InitGrow

NextRings == Next \/ NextGrow

SpecRings == InitRings /\ [][NextRings]_vars

(***************************************************************************)
(* Producer before consumer on one ticket.                                 *)
(***************************************************************************)
\* the frames of the calls in flight, of every thread
Frames == UNION {{th[t][i] : i \in DOMAIN th[t]} : t \in DOMAIN th}

\* the try_pop calls that have claimed their ticket and have not yet published
ClaimedPops ==
    {f \in Frames : f.fn \in {"try_pop", "dyn_try_pop"} /\ f.pc \in {"move", "publish"}}

\* the try_push calls that have claimed their ticket and have not yet published
ClaimedPushes ==
    {f \in Frames : f.fn \in {"try_push", "dyn_try_push"}
                    /\ f.pc \in {"construct", "publish"}}

\* the slot and the odd turn of the ticket of a try_pop frame
PopTarget(f) ==
    IF f.fn = "try_pop" THEN slot_for_ticket(f.ticket) ELSE dyn_slot_for_ticket(f)
PopTurn(f) ==
    IF f.fn = "try_pop" THEN dequeue_turn_for_ticket(f.ticket)
    ELSE dequeue_turn(f.ticket - f.offset, f.capacity)

PublishBy(fns) ==
    \E t \in DOMAIN th :
        /\ th'[t] /= th[t]
        /\ Top(t).fn \in fns
        /\ Top(t).pc = "publish"

Sequential(t) ==
    LET f == Top(t)
        fits == Len(f.model) < capacity_
        held == f.model /= <<>>
    IN  /\ f.calls < SeqCalls
        /\ \/ th' = Call(t, [f EXCEPT !.calls = @ + 1, !.next = @ + 1,
                                      !.model = IF fits THEN Append(@, f.next) ELSE @,
                                      !.expect = IF fits THEN Result("success", NoValue)
                                                 ELSE Result("queue_full", NoValue)],
                         TryPushFrame(f.next))
           \/ th' = Call(t, [f EXCEPT !.calls = @ + 1,
                                      !.model = IF held THEN Tail(@) ELSE @,
                                      !.expect = IF held THEN Result("success", Head(f.model))
                                                 ELSE Result("queue_empty", NoValue)],
                         TryPopFrame)
        /\ ret' = [ret EXCEPT ![t] = NoResult]
        /\ UNCHANGED <<queueVars, channelVars, notifyVars, historyVars>>

InitSeq ==
    /\ push_ticket = 0
    /\ pop_ticket = 0
    /\ arr = <<>> @@ (slots_ :> AllocatedSlots(SeqCapacity))
    /\ dyn = NoDyn
    /\ InitRegistries
    /\ wtr = <<>>
    /\ wstat = <<>>
    /\ th = [t \in SeqThreads |->
                <<[fn |-> "sequential", calls |-> 0, next |-> 1, model |-> <<>>,
                   expect |-> NoResult]>>]
    /\ ret = [t \in SeqThreads |-> NoResult]
    /\ todo = [t \in SeqThreads |-> <<>>]
    /\ accepted = EmptyBag
    /\ popped = EmptyBag
    /\ NoChannel

NextSeq ==
    \/ \E t \in DOMAIN th : Running(t, "sequential") /\ Sequential(t)
    \/ \E t \in DOMAIN th : Running(t, "try_push") /\ TryPush(t)
    \/ \E t \in DOMAIN th : Running(t, "try_pop") /\ TryPop(t)
    \/ \E t \in DOMAIN th : Running(t, "notify") /\ Notify(t)

SpecSeq == InitSeq /\ [][NextSeq]_vars

\* the sequential threads whose last call has returned
Returned == {t \in DOMAIN th : /\ Len(th[t]) = 1 /\ th[t][1].fn = "sequential"
                               /\ th[t][1].calls > 0}

\* the values the queue holds, oldest first
Held == [k \in 1..(push_ticket - pop_ticket) |->
            value_ptr(slot_for_ticket(pop_ticket + k - 1))]

\* C13: in single-threaded use every call returns what the FIFO sequence of
\* length at most capacity returns: try_push succeeds iff fewer than capacity
\* values are held and otherwise returns queue_full, try_pop returns the
\* oldest value and returns queue_empty iff none is held; after every call
\* the queue holds the values of the sequence, in its order.
C13_BehavesLikeFifo ==
    \A t \in Returned :
        /\ ret[t] = th[t][1].expect
        /\ pop_ticket <= push_ticket
        /\ Held = th[t][1].model

\* the ring was filled, drained and filled again, and a push on the full
\* queue was refused
C13_Witness ==
    \E t \in Returned :
        /\ pop_ticket >= capacity_
        /\ Len(th[t][1].model) = capacity_
        /\ ret[t] = Result("queue_full", NoValue)
        /\ Held = th[t][1].model

(***************************************************************************)
(* Properties of the registry.                                             *)
(***************************************************************************)
\* waiter w is on the list that starts at head, in the waiter records ws
RECURSIVE ListHas(_, _, _, _)
ListHas(ws, head, w, fuel) ==
    IF head = NoWaiter \/ fuel = 0 THEN FALSE
    ELSE head = w \/ ListHas(ws, ws[head].next, w, fuel - 1)

\* the channels <<r, i>> whose list has waiter w, in the channels chs and the
\* waiter records ws
BucketsWith(chs, ws, w) ==
    {b \in UNION {{<<r, i>> : i \in DOMAIN chs[r]} : r \in Registries} :
        ListHas(ws, chs[b[1]][b[2]].head, w, Cardinality(DOMAIN ws))}

\* thread t returns from arm in this step
ArmReturns(t) == Running(t, "arm") /\ Len(th'[t]) = Len(th[t]) - 1

\* C14: arm returns false if and only if the turn has reached the waiter's
\* expected turn, the turn being read when arm decides; when it returns true
\* the waiter is armed, linked and on the list of exactly one channel, the one
\* its channel_index names
C14_ArmResult ==
    [][\A t \in DOMAIN th : ArmReturns(t) =>
          LET f == Top(t)
              w == f.w
          IN  /\ ret'[t].status = "false"
                 <=> TurnAt(wtr[w].turn_ptr) >= wtr[w].expected_turn
              /\ ret'[t].status = "true"
                 => /\ wtr'[w].armed
                    /\ wtr'[w].linked
                    /\ BucketsWith(channels', wtr', w) = {<<f.r, wtr'[w].channel_index>>}]_vars


\* C15: for an arm that returned true the callback of the waiter is invoked
\* at most once, and not once disarm of the waiter has returned: a step that
\* invokes the callback finds no earlier invocation for this arm and no
\* returned disarm
C15_CallbackOrDisarm ==
    [][\A w \in DOMAIN wstat :
          wstat'[w].calls > wstat[w].calls
          => wstat[w].calls = 0 /\ ~wstat[w].disarmed]_vars


\* the channels of the registries that hold an entry
Buckets(chs) == UNION {{<<r, i>> : i \in DOMAIN chs[r]} : r \in Registries}

\* C17: when no lock is held on the channel that the channel_index of a waiter
\* names nor on a channel whose list has the waiter, the waiter is on the list
\* of at most one channel, its linked flag is true exactly if it is on a list,
\* and its channel_index then names the channel of that list
C17_LinkedIffOnOneList ==
    \A w \in DOMAIN wtr :
        LET on == BucketsWith(channels, wtr, w)
            held == \E b \in Buckets(channels) :
                        /\ channels[b[1]][b[2]].lock
                        /\ b[2] = wtr[w].channel_index \/ b \in on
        IN  ~held => /\ Cardinality(on) <= 1
                     /\ wtr[w].linked <=> on /= {}
                     /\ \A b \in on : b[2] = wtr[w].channel_index


(***************************************************************************)
(* The registry driven by one thread, as in the sender_notify tests: the   *)
(* thread owns the waiters and the turn words and calls arm, disarm and    *)
(* turn.store followed by notify, one call after the other.  Its frame     *)
(* records, for the checks:                                                *)
(*   chain    the waiter whose arm was the last call other than disarm of  *)
(*            that waiter, or NoWaiter                                     *)
(*   before   the registry and the other waiters when that arm was called  *)
(*   disarms  the disarm calls of the chain's waiter since its arm         *)
(*   last     the last call                                                *)
(*   repeated the waiter that was last disarmed twice in a row after its   *)
(*            arm, until its next arm                                      *)
(*   limit    the number of calls the thread makes                         *)
(***************************************************************************)
OwnerThreads == {"o1"}
OwnerWaiters == {"w1", "w2"}
OwnerCalls == 5

\* waiter number i of the waiters that hold the channels of a full registry
FillerOf(i) == "f" \o ToString(i)

\* the waiters the thread calls arm and disarm for: its own and, in the full
\* registry, the waiter that holds channel 0
OwnerHeld == (OwnerWaiters \cup {FillerOf(0)}) \cap DOMAIN wtr

OwnerRegistrations ==
    {Registration(SlotAddr(0, 7), 1, FALSE), Registration(SlotAddr(0, 7), 1, TRUE),
     Registration(SlotAddr(0, 8), 1, TRUE)}

OwnerKeys == {[turn_ptr |-> SlotAddr(0, 7), turn_value |-> 1],
              [turn_ptr |-> SlotAddr(0, 8), turn_value |-> 1]}

\* the registry r and the waiters other than w
RegistryState(r, w) ==
    [channels |-> channels[r], occupied |-> occupied[r],
     waiters |-> [x \in (DOMAIN wtr) \ {w} |-> wtr[x]]]

Owner(t) ==
    LET f == Top(t)
        g == [f EXCEPT !.calls = @ + 1]
    IN  /\ f.calls < f.limit
        /\ \/ \E w \in OwnerHeld : \E reg \in OwnerRegistrations :
                 /\ ~wtr[w].linked
                 /\ wtr' = [wtr EXCEPT ![w] =
                               [@ EXCEPT !.turn_ptr = reg.turn_ptr,
                                         !.expected_turn = reg.expected_turn,
                                         !.next = NoWaiter, !.prev = NoWaiter,
                                         !.channel_hint = reg.channel_hint,
                                         !.channel_index = invalid_channel_index,
                                         !.armed = FALSE, !.linked = FALSE,
                                         !.notifying = FALSE]]
                 /\ wstat' = [wstat EXCEPT ![w] =
                                 [arms |-> @.arms + 1, calls |-> 0, disarmed |-> FALSE]]
                 /\ th' = Call(t, [g EXCEPT !.chain = w, !.disarms = 0,
                                            !.before = RegistryState(f.r, w),
                                            !.repeated = IF @ = w THEN NoWaiter ELSE @,
                                            !.last = [op |-> "arm", w |-> w]],
                               ArmFrame(f.r, w))
                 /\ UNCHANGED arr
           \/ \E w \in OwnerHeld :
                 /\ th' = Call(t, [g EXCEPT !.chain = IF @ = w THEN w ELSE NoWaiter,
                                            !.disarms = IF f.chain = w THEN @ + 1 ELSE 0,
                                            !.repeated = IF f.chain = w /\ f.disarms > 0
                                                         THEN w ELSE @,
                                            !.last = [op |-> "disarm", w |-> w]],
                               DisarmFrame(f.r, w))
                 /\ UNCHANGED <<arr, wtr, wstat>>
           \/ \E key \in OwnerKeys :
                 /\ arr' = StoreTurn(key.turn_ptr, key.turn_value)
                 /\ th' = Call(t, [g EXCEPT !.chain = NoWaiter, !.disarms = 0,
                                            !.last = [op |-> "notify", key |-> key,
                                                      fresh |-> TurnAt(key.turn_ptr) < key.turn_value]],
                               NotifyFrame(f.r, key.turn_ptr, key.turn_value))
                 /\ UNCHANGED <<wtr, wstat>>
        /\ ret' = [ret EXCEPT ![t] = NoResult]
        /\ UNCHANGED <<push_ticket, pop_ticket, dyn, channelVars, channels, probe_window,
                       occupied, todo, accepted, popped, delivered, pushed>>

InitOwner ==
    /\ push_ticket = 0
    /\ pop_ticket = 0
    /\ arr = <<>> @@ (0 :> AllocatedSlots(NotifyCapacity))
    /\ dyn = NoDyn
    /\ InitRegistries
    /\ wtr = [w \in OwnerWaiters |->
                [turn_ptr |-> NullPtr, expected_turn |-> 0, next |-> NoWaiter,
                 prev |-> NoWaiter, owner |-> w, notify |-> "notify_callback",
                 armed |-> FALSE, linked |-> FALSE, notifying |-> FALSE,
                 channel_hint |-> invalid_channel_index,
                 channel_index |-> invalid_channel_index]]
    /\ wstat = [w \in OwnerWaiters |-> [arms |-> 0, calls |-> 0, disarmed |-> FALSE]]
    /\ th = [t \in OwnerThreads |->
                <<[fn |-> "owner", r |-> "pop", calls |-> 0, limit |-> OwnerCalls,
                   chain |-> NoWaiter,
                   disarms |-> 0, before |-> RegistryState("pop", NoWaiter),
                   last |-> [op |-> "none"], repeated |-> NoWaiter]>>]
    /\ ret = [t \in OwnerThreads |-> NoResult]
    /\ todo = [t \in OwnerThreads |-> <<>>]
    /\ accepted = EmptyBag
    /\ popped = EmptyBag
    /\ NoChannel

NextOwner ==
    \/ \E t \in DOMAIN th : Running(t, "owner") /\ Owner(t)
    \/ \E t \in DOMAIN th : Running(t, "arm") /\ Arm(t)
    \/ \E t \in DOMAIN th : Running(t, "disarm") /\ Disarm(t)
    \/ \E t \in DOMAIN th : Running(t, "notify") /\ Notify(t)
    \/ \E t \in DOMAIN th : Running(t, "notify_callback") /\ notify_callback(t)

SpecOwner == InitOwner /\ [][NextOwner]_vars

\* thread t returns from disarm in this step
DisarmReturns(t) == Running(t, "disarm") /\ Len(th'[t]) = Len(th[t]) - 1

\* C16: when disarm(w) returns and the calls since arm(w) were disarms of w
\* only, the registry and the other waiters are as they were when arm(w) was
\* called and w is unlinked and not armed, after the first disarm and after a
\* repeated one; and the callback of a waiter whose disarm has returned is not
\* invoked by a later notify
C16_ArmDisarmRestores ==
    [][/\ \A t \in DOMAIN th :
             (DisarmReturns(t) /\ th[t][1].fn = "owner" /\ th[t][1].chain = Top(t).w)
             => LET w == Top(t).w
                    r == Top(t).r
                IN  /\ channels'[r] = th[t][1].before.channels
                    /\ occupied'[r] = th[t][1].before.occupied
                    /\ \A x \in (DOMAIN wtr) \ {w} : wtr'[x] = th[t][1].before.waiters[x]
                    /\ ~wtr'[w].linked /\ ~wtr'[w].armed
                    /\ wtr'[w].channel_index = invalid_channel_index
                    /\ BucketsWith(channels', wtr', w) = {}
       /\ \A w \in DOMAIN wstat :
             wstat'[w].calls > wstat[w].calls => ~wstat[w].disarmed]_vars

\* a waiter was armed while its turn was not reached and was disarmed twice;
\* then its key was published and notified, and its callback was not invoked;
\* the other waiter is linked
C16_Witness ==
    \E t \in DOMAIN th : \E w \in DOMAIN wtr :
        /\ Len(th[t]) = 1 /\ th[t][1].fn = "owner"
        /\ th[t][1].last.op = "notify" /\ th[t][1].last.fresh
        /\ th[t][1].last.key.turn_ptr = wtr[w].turn_ptr
        /\ th[t][1].last.key.turn_value = wtr[w].expected_turn
        /\ th[t][1].repeated = w
        /\ wstat[w].arms > 0 /\ wstat[w].disarmed /\ wstat[w].calls = 0
        /\ \E x \in (DOMAIN wtr) \ {w} : wtr[x].linked


\* C18: while notify is invoking the callback of a waiter, the armed flag of
\* the waiter is false and its notifying flag is true, whatever the callback
\* does
C18_FlagsDuringCallback ==
    \A t \in DOMAIN th : \A i \in 1..(Len(th[t]) - 1) :
        (th[t][i].fn = "notify" /\ th[t][i].pc = "clear")
        => /\ ~wtr[th[t][i].current].armed
           /\ wtr[th[t][i].current].notifying


(***************************************************************************)
(* The full registry: every one of the wait_channel_count_ channels is     *)
(* held by one waiter with a key of its own, the state after               *)
(* wait_channel_count_ calls of arm with the keys (turn word of slot 0,    *)
(* FillerTurn + i) and the hints i.  One thread then makes its calls for   *)
(* one more waiter and for the waiter of channel 0.                        *)
(***************************************************************************)
FullCalls == 3
FillerTurn == 10

FullChannel(i) ==
    [lock |-> FALSE, key_tag |-> mix_key(SlotAddr(0, 0), FillerTurn + i),
     turn_ptr |-> SlotAddr(0, 0), expected_turn |-> FillerTurn + i,
     head |-> FillerOf(i), size |-> 1]

InitFull ==
    /\ push_ticket = 0
    /\ pop_ticket = 0
    /\ arr = <<>> @@ (0 :> AllocatedSlots(NotifyCapacity))
    /\ dyn = NoDyn
    /\ channels = [r \in Registries |->
                     IF r = "pop" THEN [i \in 0..(wait_channel_count_ - 1) |-> FullChannel(i)]
                     ELSE <<>>]
    /\ probe_window = [r \in Registries |-> 16]
    /\ occupied = [r \in Registries |-> IF r = "pop" THEN wait_channel_count_ ELSE 0]
    /\ wtr = [w \in {"w1"} |->
                [turn_ptr |-> NullPtr, expected_turn |-> 0, next |-> NoWaiter,
                 prev |-> NoWaiter, owner |-> w, notify |-> "notify_callback",
                 armed |-> FALSE, linked |-> FALSE, notifying |-> FALSE,
                 channel_hint |-> invalid_channel_index,
                 channel_index |-> invalid_channel_index]]
             @@ [w \in {FillerOf(i) : i \in 0..(wait_channel_count_ - 1)} |->
                   LET i == CHOOSE j \in 0..(wait_channel_count_ - 1) : FillerOf(j) = w
                   IN  [turn_ptr |-> SlotAddr(0, 0), expected_turn |-> FillerTurn + i,
                        next |-> NoWaiter, prev |-> NoWaiter, owner |-> w,
                        notify |-> "notify_callback",
                        armed |-> TRUE, linked |-> TRUE, notifying |-> FALSE,
                        channel_hint |-> i, channel_index |-> i]]
    /\ wstat = [w \in {"w1"} |-> [arms |-> 0, calls |-> 0, disarmed |-> FALSE]]
               @@ [w \in {FillerOf(i) : i \in 0..(wait_channel_count_ - 1)} |->
                     [arms |-> 1, calls |-> 0, disarmed |-> FALSE]]
    /\ th = [t \in OwnerThreads |->
                <<[fn |-> "owner", r |-> "pop", calls |-> 0, limit |-> FullCalls,
                   chain |-> NoWaiter, disarms |-> 0, before |-> <<>>,
                   last |-> [op |-> "none"], repeated |-> NoWaiter]>>]
    /\ ret = [t \in OwnerThreads |-> NoResult]
    /\ todo = [t \in OwnerThreads |-> <<>>]
    /\ accepted = EmptyBag
    /\ popped = EmptyBag
    /\ NoChannel

SpecFull == InitFull /\ [][NextOwner]_vars

\* C19: arm never fails for lack of a channel: when it returns false the turn
\* of the waiter has reached its expected turn
C19_ArmFailsOnlyOnTurn ==
    [][\A t \in DOMAIN th :
          (ArmReturns(t) /\ ret'[t].status = "false")
          => turn_reached(TurnAt(wtr[Top(t).w].turn_ptr), wtr[Top(t).w].expected_turn)]_vars


\* thread t executes closed.exchange(true) of close_impl in this step
CloseExchange(t) == Running(t, "close_impl") /\ Top(t).pc = "exchange" /\ th'[t] /= th[t]

\* C20: the closed flag never reverts; close_epoch changes only from 0 to 1;
\* a close() that finds the flag set returns false and changes nothing; at
\* most one close() has returned true, every other one has returned false,
\* and once every call has returned and close() was called, one has returned
\* true
C20_CloseOneShot ==
    [][/\ closed => closed'
       /\ close_epoch' /= close_epoch => close_epoch = 0 /\ close_epoch' = 1
       /\ \A t \in DOMAIN th :
             (CloseExchange(t) /\ closed)
             => /\ Len(th'[t]) = Len(th[t]) - 1
                /\ ret'[t].status = "false"
                /\ UNCHANGED <<queueVars, channelVars, notifyVars>>
       /\ Cardinality({x \in CloseReturns : CloseStatus(x) = "true"}) <= 1
       /\ \A x \in CloseReturns : CloseStatus(x) \in {"true", "false"}
       /\ (ChannelIdle /\ CloseReturns /= {})
          => /\ \E x \in CloseReturns : CloseStatus(x) = "true"
             /\ closed /\ close_epoch = 1]_vars

\* three close() calls of two threads have returned, one of them true, and
\* the pop that waited has its result
C20_Witness ==
    /\ ChannelIdle
    /\ Cardinality(CloseReturns) = 3
    /\ Cardinality({x \in CloseReturns : CloseStatus(x) = "true"}) = 1
    /\ \E o \in DOMAIN ops : ops[o].kind = "pop" /\ ops[o].final /= NoResult


(***************************************************************************)
(* queue_full and queue_empty.                                             *)
(***************************************************************************)
\* thread t returns status from try_push or try_pop in this step
ReturnsStatus(t, fn, status) ==
    /\ Running(t, fn)
    /\ Len(th'[t]) = Len(th[t]) - 1
    /\ ret'[t].status = status

\* C29, as stated: try_push returns queue_full only if push_ticket -
\* pop_ticket >= capacity at some instant during the call, and try_pop returns
\* queue_empty only if push_ticket = pop_ticket at some instant during the call
C29_FullOrEmptyByTickets ==
    [][\A t \in DOMAIN th :
          /\ ReturnsStatus(t, "try_push", "queue_full") => Top(t).full
          /\ ReturnsStatus(t, "try_pop", "queue_empty") => Top(t).empty]_vars

\* C29, amended: try_push returns queue_full only if, when it last loaded the
\* turn of its slot, the slot of ticket push_ticket had not been released by
\* the pop of the lap before; try_pop returns queue_empty only if, when it
\* last loaded the turn of its slot, the slot of ticket pop_ticket had not
\* been published by the push of that ticket
C29_FullOrEmptyBySlot ==
    [][\A t \in DOMAIN th :
          /\ ReturnsStatus(t, "try_push", "queue_full") => Top(t).held
          /\ ReturnsStatus(t, "try_pop", "queue_empty") => Top(t).held]_vars

\* a try_push has returned queue_full while a pop that has claimed the only
\* slot has not published it, and a try_pop has returned queue_empty
C29_Witness ==
    /\ \E t \in DOMAIN th : Len(th[t]) = 1 /\ ret[t].status = "queue_full"
    /\ \E t \in DOMAIN th : Len(th[t]) = 1 /\ ret[t].status = "queue_empty"
    /\ push_ticket - pop_ticket < capacity_
    /\ \E t \in DOMAIN th : Running(t, "try_pop") /\ Top(t).pc \in {"move", "publish"}


(***************************************************************************)
(* Exclusive access to a slot.                                             *)
(***************************************************************************)
\* the calls that have claimed a ticket and not yet published the slot's turn,
\* as <<thread, frame number>>
SlotOwners ==
    {x \in UNION {{<<t, i>> : i \in DOMAIN th[t]} : t \in DOMAIN th} :
        LET f == th[x[1]][x[2]]
        IN  \/ f.fn = "try_push" /\ f.pc \in {"construct", "publish"}
            \/ f.fn = "try_pop" /\ f.pc \in {"move", "publish"}}

\* C30: the calls that hold a claimed ticket hold pairwise different slots, so
\* at most one thread constructs into or moves out of a slot at a time; the
\* ticket of such a push is below push_ticket and that of such a pop below
\* pop_ticket; a push constructs into a slot that holds no element, a pop
\* moves out of a slot that holds one; and a call whose ticket was claimed by
\* another thread does not hold the slot
C30_ExclusiveSlotAccess ==
    /\ \A x, y \in SlotOwners :
          x /= y => slot_for_ticket(th[x[1]][x[2]].ticket)
                    /= slot_for_ticket(th[y[1]][y[2]].ticket)
    /\ \A x \in SlotOwners :
          LET f == th[x[1]][x[2]]
          IN  /\ f.fn = "try_push" => f.ticket < push_ticket
              /\ f.fn = "try_pop" => f.ticket < pop_ticket
              /\ f.pc = "construct" => value_ptr(slot_for_ticket(f.ticket)) = NoValue
              /\ f.pc = "move" => value_ptr(slot_for_ticket(f.ticket)) /= NoValue

\* a pop is moving the element out of a slot while a push still carries the
\* ticket of that slot, which another thread has claimed
C30_Witness ==
    \E t, u \in DOMAIN th :
        /\ Running(t, "try_push") /\ Top(t).pc \in {"turn", "cas"}
        /\ Top(t).ticket < push_ticket
        /\ Running(u, "try_pop") /\ Top(u).pc = "move"
        /\ slot_for_ticket(Top(u).ticket) = slot_for_ticket(Top(t).ticket)


(***************************************************************************)
(* try_push on a closed channel.                                           *)
(***************************************************************************)
\* thread t is in a try_push that was called after some close() had returned
\* true
LatePush(t) ==
    /\ Len(th[t]) >= 2
    /\ th[t][1].fn = "channel_thread" /\ th[t][1].after
    /\ th[t][1].made[Len(th[t][1].made)] = "try_push"

\* C21: a try_push called after a close() has returned true makes no step
\* that changes push_ticket or a slot, and returns channel_closed
C21_TryPushAfterClose ==
    [][\A t \in DOMAIN th :
          (LatePush(t) /\ th'[t] /= th[t])
          => /\ push_ticket' = push_ticket
             /\ arr' = arr
             /\ Len(th'[t]) = 1 => ret'[t].status = "channel_closed"]_vars

\* a try_push called after close() had returned true has returned
\* channel_closed, and the ring has a free slot
C21_Witness ==
    \E t \in DOMAIN th :
        /\ Len(th[t]) = 1 /\ th[t][1].fn = "channel_thread" /\ th[t][1].after
        /\ th[t][1].made /= <<>>
        /\ th[t][1].made[Len(th[t][1].made)] = "try_push"
        /\ ret[t].status = "channel_closed"
        /\ push_ticket - pop_ticket < capacity_

(***************************************************************************)
(* Pops after close.                                                       *)
(***************************************************************************)
\* the try_pop() or async pop of thread t returns in this step
PopReturnsNow(t) ==
    /\ th[t][1].fn = "channel_thread"
    /\ Len(th[t]) >= 2
    /\ th[t][1].made[Len(th[t][1].made)] \in {"try_pop", "pop"}
    /\ Len(th'[t]) = 1

\* C22: a pop that begins after close() has returned true returns a value or
\* channel_closed, never queue_empty; once such a pop of a thread has returned
\* channel_closed, every later pop of the thread returns channel_closed too;
\* and a pop returns channel_closed only on a closed channel (an open, empty
\* channel gives queue_empty)
C22_CloseDrains ==
    [][\A t \in DOMAIN th :
          PopReturnsNow(t) =>
              /\ th[t][1].after => ret'[t].status \in {"success", "channel_closed"}
              /\ th[t][1].drained => ret'[t].status = "channel_closed"
              /\ ret'[t].status = "channel_closed" => closed]_vars

(***************************************************************************)
(* The attempt loop of an operation.                                       *)
(***************************************************************************)
\* the activations <<thread, frame>> that are inside the loop body of
\* schedule_attempt of operation o: between the running_ exchange that
\* returned false and running_.store(false), or in complete
InAttemptLoop(o) ==
    {x \in UNION {{<<t, i>> : i \in DOMAIN th[t]} : t \in DOMAIN th} :
        LET f == th[x[1]][x[2]]
        IN  \/ f.fn = "schedule_attempt" /\ f.o = o /\ f.pc \in {"clear", "status"}
            \/ f.fn = "complete" /\ f.o = o}

\* C24: at most one activation at a time is inside the attempt loop body of
\* one operation
C24_OneWorker == \A o \in DOMAIN ops : Cardinality(InAttemptLoop(o)) <= 1

\* a second thread calls schedule_attempt while the worker is in run_attempt
C24_Witness ==
    \E o \in DOMAIN ops : \E x \in InAttemptLoop(o) : \E t \in DOMAIN th \ {x[1]} :
        /\ Top(t).fn = "schedule_attempt" /\ Top(t).o = o /\ Top(t).pc = "running"
        /\ ops[o].q.running_
        /\ Top(x[1]).fn = "run_attempt"

QueueChildDone(o) ==
    /\ ops[o].q.sets = 1
    /\ \A t \in DOMAIN th : \A i \in DOMAIN th[t] :
          ~(th[t][i].fn = "disarm" /\ th[t][i].w = QueueWaiter(o))

\* a notify has selected waiter w of operation o and has not invoked its
\* callback yet, or the callback has still to call or is inside
\* schedule_attempt
CallbackAhead(o, w) ==
    \E t \in DOMAIN th : \E i \in DOMAIN th[t] :
        LET f == th[t][i]
        IN  /\ f.fn = "notify"
            /\ \/ f.ready = w
               \/ /\ f.pc = "clear" /\ f.current = w /\ i < Len(th[t])
                  /\ \/ th[t][i + 1].fn = "queue_notify_waiter"
                     \/ th[t][i + 1].fn = "schedule_attempt" /\ th[t][i + 1].o = o

\* C25: when an operation whose waiter was armed at the stop request has
\* completed, its waiter is linked in no bucket and no callback of the waiter
\* is selected or running
C25_CompletesAfterDisarm ==
    \A o \in DOMAIN ops :
        (ops[o].q.stop_armed /\ QueueChildDone(o)) =>
            /\ ~wtr[QueueWaiter(o)].linked
            /\ ~CallbackAhead(o, QueueWaiter(o))

(***************************************************************************)
(* The channel scenario with the order the memory model gives the publish  *)
(* of try_push and try_pop: turn.store(release), then notify, whose        *)
(* lock_existing_channel loads the key_tags relaxed.  The store is ordered *)
(* after the accesses before it, not before the loads that follow it, so   *)
(* it may become visible to the other threads only after notify has found  *)
(* no channel tagged with the key and has returned (a lock of a channel is *)
(* a read-modify-write, which the store does not pass).                    *)
(***************************************************************************)
\* the key_tag loads of notify, which find no channel, pass the turn store
publish_delayed(t) ==
    LET f == Top(t)
        target == slot_for_ticket(f.ticket)
        turn_ptr == SlotAddr(target.a, target.i)
        turn_value == 1 + IF f.fn = "try_push" THEN enqueue_turn_for_ticket(f.ticket)
                          ELSE dequeue_turn_for_ticket(f.ticket)
    IN  /\ f.pc = "publish"
        /\ MatchingOffsets(IF f.fn = "try_push" THEN "pop" ELSE "push",
                           key_tag_of(turn_ptr, turn_value), start_of(turn_ptr, turn_value),
                           0, wait_channel_count_) = {}
        /\ th' = Goto(t, [fn |-> "delayed_store", call |-> f.fn, ticket |-> f.ticket,
                          value |-> f.value])
        /\ UNCHANGED <<queueVars, channelVars, notifyVars, ret, historyVars>>

\* the turn store becomes visible; try_push / try_pop returns
delayed_store(t) ==
    LET f == Top(t)
        target == slot_for_ticket(f.ticket)
    IN  /\ th' = Return(t)
        /\ IF f.call = "try_push"
           THEN /\ arr' = [arr EXCEPT ![target.a][target.i].turn =
                                          enqueue_turn_for_ticket(f.ticket) + 1]
                /\ ret' = [ret EXCEPT ![t] = Result("success", NoValue)]
                /\ accepted' = accepted (+) SetToBag({f.value})
                /\ UNCHANGED <<popped, pushed>>
           ELSE /\ arr' = [arr EXCEPT ![target.a][target.i].turn =
                                          dequeue_turn_for_ticket(f.ticket) + 1]
                /\ ret' = [ret EXCEPT ![t] = Result("success", f.value)]
                /\ popped' = popped (+) SetToBag({f.value})
                /\ pushed' = WithoutPushed(f.ticket)
                /\ UNCHANGED accepted
        /\ UNCHANGED <<push_ticket, pop_ticket, dyn, channelVars, notifyVars, todo, delivered>>

RelaxedPrograms ==
    {[p1 |-> <<[call |-> "try_push", value |-> 11]>>,
      c1 |-> <<[call |-> "pop", value |-> NoValue]>>,
      x1 |-> <<[call |-> "close", value |-> NoValue]>>],
     [p1 |-> <<[call |-> "try_push", value |-> 11]>>,
      c1 |-> <<[call |-> "pop", value |-> NoValue]>>,
      x1 |-> <<[call |-> "try_pop", value |-> NoValue]>>]}

InitRelaxed == InitChannel /\ todo \in RelaxedPrograms

NextRelaxed ==
    \/ NextChannel
    \/ \E t \in DOMAIN th : Top(t).fn \in {"try_push", "try_pop"} /\ publish_delayed(t)
    \/ \E t \in DOMAIN th : Running(t, "delayed_store") /\ delayed_store(t)

SpecRelaxed == InitRelaxed /\ [][NextRelaxed]_vars

(***************************************************************************)
(* Progress of the async operations.                                       *)
(***************************************************************************)
\* operation o was started and has not delivered its result
Pending(o) == ops[o].kind /= "none" /\ ops[o].started /\ ops[o].final = NoResult

\* C28: once every thread has returned from all of its calls, no async pop
\* is pending while the ring holds a value and no async push is pending
\* while the ring has a free slot
C28_NoParkedWork ==
    ChannelIdle =>
        \A o \in DOMAIN ops :
            Pending(o) => IF ops[o].kind = "pop" THEN push_ticket = pop_ticket
                          ELSE push_ticket - pop_ticket >= capacity_

(***************************************************************************)
(* Construction.  A thread constructs a bounded queue, a growable queue    *)
(* (initial_capacity, options) or a channel from arguments of its choice;  *)
(* a failed wh_precondition ends in contract_violation, which aborts.      *)
(***************************************************************************)
\* the largest capacity, max_capacity and growth_factor that are tried
ArgMax == 3

ConstructorFrames ==
    {[fn |-> "constructor", kind |-> kind, pc |-> "begin", capacity |-> capacity,
      max_capacity |-> max_capacity, growth_factor |-> growth_factor,
      max_capacity_ |-> 0, growth_factor_ |-> 0, max_closed_arrays_ |-> 0] :
        kind \in {"growable"}, capacity \in 0..ArgMax, max_capacity \in 0..ArgMax,
        growth_factor \in 0..ArgMax}
    \cup
    {[fn |-> "constructor", kind |-> kind, pc |-> "begin", capacity |-> capacity,
      max_capacity |-> 0, growth_factor |-> 0,
      max_capacity_ |-> 0, growth_factor_ |-> 0, max_closed_arrays_ |-> 0] :
        kind \in {"bounded", "channel"}, capacity \in 0..ArgMax}

\* wh_precondition(capacity > 0)
validate_capacity(capacity) == capacity > 0

Constructor(t) ==
    LET f == Top(t)
        max_capacity == resolve_max_capacity(f.capacity, f.max_capacity)
        growth_factor == resolve_growth_factor(f.growth_factor)
        max_closed_arrays == compute_max_closed_arrays(f.capacity, max_capacity,
                                                       growth_factor)
    IN  /\ f.pc = "begin"
        /\ IF ~validate_capacity(f.capacity)
           THEN /\ th' = Goto(t, [f EXCEPT !.pc = "contract_violation"])
                /\ UNCHANGED <<arr, dyn>>
           ELSE /\ arr' = <<AllocatedSlots(f.capacity)>>
                /\ IF f.kind = "growable"
                   THEN /\ dyn' = [dslots |-> 1, dcapacity |-> f.capacity,
                                   dstride |-> compute_stride(f.capacity), dstate |-> 0,
                                   closed_arrays |->
                                       [i \in 1..max_closed_arrays |-> closed_array],
                                   resolved |-> <<>>]
                        /\ th' = Goto(t, [f EXCEPT !.pc = "constructed",
                                                   !.max_capacity_ = max_capacity,
                                                   !.growth_factor_ = growth_factor,
                                                   !.max_closed_arrays_ = max_closed_arrays])
                   ELSE /\ th' = Goto(t, [f EXCEPT !.pc = "constructed",
                                                   !.max_capacity_ = f.capacity])
                        /\ UNCHANGED dyn
        /\ UNCHANGED <<push_ticket, pop_ticket, channelVars, notifyVars, ret, historyVars>>

InitConstruct ==
    /\ push_ticket = 0
    /\ pop_ticket = 0
    /\ arr = <<>>
    /\ dyn = NoDyn
    /\ InitRegistries
    /\ wtr = <<>>
    /\ wstat = <<>>
    /\ \E f \in ConstructorFrames : th = [k1 |-> <<f>>]
    /\ ret = [k1 |-> NoResult]
    /\ todo = [k1 |-> <<>>]
    /\ accepted = EmptyBag
    /\ popped = EmptyBag
    /\ NoChannel

NextConstruct == \E t \in DOMAIN th : Running(t, "constructor") /\ Constructor(t)

SpecConstruct == InitConstruct /\ [][NextConstruct]_vars

\* the constructor of thread t has ended
Constructed(t) == Top(t).pc = "constructed"
Trapped(t) == Top(t).pc = "contract_violation"

TimedThreads == {"m1", "c1"}
TimerThreads == {"tm"}

Timeout == Result("timeout", NoValue)

\* the calls of the test of the timed scheduler on a full queue, without and
\* with a consumer at work
TimedPrograms ==
    LET fill == [i \in 1..Capacity |-> [call |-> "try_push", value |-> i]]
    IN  {[m1 |-> fill \o <<[call |-> "push_until", value |-> 2],
                           [call |-> "pop_until", value |-> NoValue],
                           [call |-> "try_push", value |-> 9],
                           [call |-> "try_pop", value |-> NoValue]>>,
          c1 |-> <<>>, tm |-> <<>>],
         [m1 |-> fill \o <<[call |-> "push_until", value |-> 2]>>,
          c1 |-> <<[call |-> "try_pop", value |-> NoValue]>>, tm |-> <<>>],
         [m1 |-> <<[call |-> "pop_until", value |-> NoValue]>>,
          c1 |-> <<[call |-> "try_push", value |-> 5]>>, tm |-> <<>>]}

\* the last call of the thread is an async one
LastIsAsync(f) == f.made /= <<>> /\ f.made[Len(f.made)] \in {"push_until", "pop_until"}

\* variant: when_any starts the timer, then the queue child
TimedThread_timer_first(t) ==
    LET call == Head(todo[t])
        f == th[t][1]
        last == IF f.made = <<>> THEN <<>>
                ELSE IF LastIsAsync(f) THEN <<ops[t].final>> ELSE <<ret[t]>>
        base == [f EXCEPT !.made = Append(@, call.call), !.got = @ \o last,
                          !.held = Held]
    IN  /\ todo[t] /= <<>>
        \* sync_wait returns once the operation has delivered its result
        /\ LastIsAsync(f) => ops[t].final /= NoResult
        /\ todo' = [todo EXCEPT ![t] = Tail(@)]
        /\ ops' = IF call.call \in {"push_until", "pop_until"}
                  THEN [ops EXCEPT ![t] =
                           OperationState(IF call.call = "push_until" THEN "push"
                                          ELSE "pop", call.value)]
                  ELSE ops
        /\ th' = [th EXCEPT ![t] =
                     CASE call.call = "try_push" -> <<base, TryPushFrame(call.value)>>
                       [] call.call = "try_pop" -> <<base, TryPopFrame>>
                       [] OTHER ->
                            <<base, [fn |-> "queue_start", o |-> t],
                                    [fn |-> "timer_start", o |-> t]>>]
        /\ UNCHANGED <<queueVars, closed, close_epoch, notifyVars, ret, accepted, popped,
                       delivered, pushed>>

TimedThread(t) ==
    LET call == Head(todo[t])
        f == th[t][1]
        last == IF f.made = <<>> THEN <<>>
                ELSE IF LastIsAsync(f) THEN <<ops[t].final>> ELSE <<ret[t]>>
        base == [f EXCEPT !.made = Append(@, call.call), !.got = @ \o last,
                          !.held = Held]
    IN  /\ todo[t] /= <<>>
        \* sync_wait returns once the operation has delivered its result
        /\ LastIsAsync(f) => ops[t].final /= NoResult
        /\ todo' = [todo EXCEPT ![t] = Tail(@)]
        /\ ops' = IF call.call \in {"push_until", "pop_until"}
                  THEN [ops EXCEPT ![t] =
                           OperationState(IF call.call = "push_until" THEN "push"
                                          ELSE "pop", call.value)]
                  ELSE ops
        /\ th' = [th EXCEPT ![t] =
                     CASE call.call = "try_push" -> <<base, TryPushFrame(call.value)>>
                       [] call.call = "try_pop" -> <<base, TryPopFrame>>
                       [] OTHER ->
                            \* when_any starts the queue child, then the timer
                            <<base, [fn |-> "timer_start", o |-> t],
                                    [fn |-> "queue_start", o |-> t]>>]
        /\ UNCHANGED <<queueVars, closed, close_epoch, notifyVars, ret, accepted, popped,
                       delivered, pushed>>

\* start of schedule_at(deadline) | then(timeout): set_stopped if the stop
\* was requested by now, else the timer is registered
timer_start(t) ==
    LET o == Top(t).o
    IN  /\ IF ops[o].stop
           THEN th' = TailCall(t, CompleteValueFrame(o, Stopped)) /\ UNCHANGED ops
           ELSE th' = Return(t) /\ ops' = [ops EXCEPT ![o].c.on_stop = TRUE]
        /\ UNCHANGED <<aroundOps, ret>>

\* the thread of the timed scheduler: a registered timer fires
TimerThread(t) ==
    \E o \in DOMAIN ops :
        /\ ops[o].c.on_stop /\ ~ops[o].c.completed
        /\ th' = Call(t, Top(t), CompleteValueFrame(o, Timeout))
        /\ UNCHANGED <<aroundOps, ops, ret>>

InitTimed ==
    /\ push_ticket = 0
    /\ pop_ticket = 0
    /\ arr = <<>> @@ (slots_ :> AllocatedSlots(Capacity))
    /\ dyn = NoDyn
    /\ InitRegistries
    /\ wtr = [w \in {QueueWaiter(o) : o \in TimedThreads} |->
                [turn_ptr |-> NullPtr, expected_turn |-> 0, next |-> NoWaiter,
                 prev |-> NoWaiter,
                 owner |-> CHOOSE o \in TimedThreads : w = QueueWaiter(o),
                 notify |-> "queue_notify_waiter",
                 armed |-> FALSE, linked |-> FALSE, notifying |-> FALSE,
                 channel_hint |-> invalid_channel_index,
                 channel_index |-> invalid_channel_index]]
    /\ wstat = [w \in {QueueWaiter(o) : o \in TimedThreads} |->
                  [arms |-> 0, calls |-> 0, disarmed |-> FALSE]]
    /\ th = [t \in TimedThreads \cup TimerThreads |->
                IF t \in TimerThreads THEN <<[fn |-> "timer_thread"]>>
                ELSE <<[fn |-> "timed_thread", made |-> <<>>, got |-> <<>>,
                        held |-> <<>>]>>]
    /\ ret = [t \in TimedThreads \cup TimerThreads |-> NoResult]
    /\ todo \in TimedPrograms
    /\ accepted = EmptyBag
    /\ popped = EmptyBag
    /\ closed = FALSE
    /\ close_epoch = 0
    /\ ops = [o \in TimedThreads |-> OperationState("none", NoValue)]
    /\ delivered = EmptyBag
    /\ pushed = <<>>

NextTimed ==
    \/ \E t \in DOMAIN th : Running(t, "timed_thread") /\ TimedThread(t)
    \/ \E t \in DOMAIN th : Running(t, "timer_thread") /\ TimerThread(t)
    \/ \E t \in DOMAIN th : Running(t, "timer_start") /\ timer_start(t)
    \/ \E t \in DOMAIN th : Running(t, "try_push") /\ TryPush(t)
    \/ \E t \in DOMAIN th : Running(t, "try_pop") /\ TryPop(t)
    \/ \E t \in DOMAIN th : Running(t, "notify") /\ Notify(t)
    \/ \E t \in DOMAIN th : Running(t, "arm") /\ Arm(t)
    \/ \E t \in DOMAIN th : Running(t, "disarm") /\ Disarm(t)
    \/ \E t \in DOMAIN th : Running(t, "queue_start") /\ queue_start(t)
    \/ \E t \in DOMAIN th : Running(t, "queue_stop_handler") /\ queue_stop_handler(t)
    \/ \E t \in DOMAIN th : Running(t, "queue_notify_waiter") /\ queue_notify_waiter(t)
    \/ \E t \in DOMAIN th : Running(t, "schedule_attempt") /\ schedule_attempt(t)
    \/ \E t \in DOMAIN th : Running(t, "run_attempt") /\ run_attempt(t)
    \/ \E t \in DOMAIN th : Running(t, "complete") /\ complete(t)
    \/ \E t \in DOMAIN th : Running(t, "complete_value") /\ complete_value(t)
    \/ \E t \in DOMAIN th : Running(t, "on_stop_requested") /\ on_stop_requested(t)
    \/ \E t \in DOMAIN th : Running(t, "when_any_notify") /\ when_any_notify(t)

SpecTimed == InitTimed /\ [][NextTimed]_vars


\* no thread but t makes calls
Alone(t) == \A u \in TimedThreads \ {t} : todo[u] = <<>> /\ th[u][1].made = <<>>

\* every thread is back in its loop
Quiet == \A t \in DOMAIN th : Len(th[t]) = 1

\* C26: with no other thread at work, a push_until on a full queue delivers
\* timeout and a pop_until on a queue that holds values delivers the oldest
\* one, never timeout; the push_until leaves the ring as it was; once the
\* timer has fired or was cancelled and every thread is back in its loop the
\* operation has delivered its result; and a try_push or try_pop after these
\* operations returns what the FIFO sequence of the ring's values returns
C26_DeadlineVariants ==
    \A t \in TimedThreads :
        LET f == th[t][1]
            call == f.made[Len(f.made)]
            full == Len(f.held) >= capacity_
        IN  (Alone(t) /\ f.made /= <<>>) =>
                /\ (LastIsAsync(f) /\ Quiet /\ ops[t].c.completed) =>
                       ops[t].final /= NoResult
                /\ (call = "push_until" /\ ops[t].final /= NoResult) =>
                       /\ ops[t].final = IF full THEN Timeout
                                         ELSE Result("success", NoValue)
                       /\ Len(th[t]) = 1 =>
                             Held = IF full THEN f.held ELSE Append(f.held, ops[t].value)
                /\ (call = "pop_until" /\ ops[t].final /= NoResult) =>
                       /\ ops[t].final = IF f.held = <<>> THEN Timeout
                                         ELSE Result("success", Head(f.held))
                       /\ Len(th[t]) = 1 =>
                             Held = IF f.held = <<>> THEN <<>> ELSE Tail(f.held)
                /\ (call = "try_push" /\ Len(th[t]) = 1) =>
                       ret[t] = IF full THEN Result("queue_full", NoValue)
                                ELSE Result("success", NoValue)
                /\ (call = "try_pop" /\ Len(th[t]) = 1) =>
                       ret[t] = IF f.held = <<>> THEN Result("queue_empty", NoValue)
                                ELSE Result("success", Head(f.held))

\* the calls of the test have returned: the push_until on the full queue
\* timeout, the pop_until the oldest value, and the try_push and try_pop
\* after them succeeded
C26_Witness ==
    \E t \in TimedThreads :
        LET f == th[t][1]
        IN  /\ Alone(t) /\ todo[t] = <<>> /\ Len(th[t]) = 1
            /\ Len(f.made) = Capacity + 4
            /\ f.got[Capacity + 1] = Timeout
            /\ f.got[Capacity + 2] = Result("success", 1)
            /\ f.got[Capacity + 3] = Result("success", NoValue)
            /\ ret[t].status = "success"

(***************************************************************************)
(* Ticket-to-ring resolution across growth.                                *)
(***************************************************************************)
\* the frames of the growable queue's calls that have resolved their ticket
ResolvedFrames ==
    {f \in Frames : /\ f.fn \in {"dyn_try_push", "dyn_try_pop"}
                    /\ f.pc \in {"turn", "cas", "construct", "move", "publish",
                                 "reload", "trap"}}

stale_state_load(t) ==
    LET f == Top(t)
        state == dyn.dstate - 1
    IN  /\ f.pc \in {"sl_state", "sl_check"}
        /\ dyn.dstate % 2 = 1
        /\ th' =
             CASE f.pc = "sl_state" ->
                    Goto(t, [f EXCEPT !.pc = "sl_slots", !.state = state])
               [] f.pc = "sl_check" ->
                    IF f.state /= state THEN Continue(t, f)
                    ELSE LET view == maybe_update_from_closed(f)
                         IN  Goto(t, [f EXCEPT !.pc = IF view.capacity = 0
                                                      THEN "trap" ELSE "turn",
                                               !.offset = view.offset,
                                               !.slots = view.slots,
                                               !.capacity = view.capacity,
                                               !.stride = view.stride])
        /\ UNCHANGED <<queueVars, channelVars, notifyVars, ret, historyVars>>

\* one producer that fills and grows the queue against one consumer
RelaxedGrowThreads == {{"p1", "c1"}}

InitGrowRelaxed == InitGrowWith(RelaxedGrowThreads)

NextGrowRelaxed ==
    \/ NextGrow
    \/ \E t \in DOMAIN th :
          Top(t).fn \in {"dyn_try_push", "dyn_try_pop"} /\ stale_state_load(t)

SpecGrowRelaxed == InitGrowRelaxed /\ [][NextGrowRelaxed]_vars

\* the threads inside a growth step
Expanding ==
    {t \in DOMAIN th :
        /\ Top(t).fn = "dyn_try_push"
        /\ Top(t).pc \in {"ex_restore", "ex_first", "ex_second_pop", "ex_second_push",
                          "ex_slots", "ex_capacity", "ex_stride", "ex_state"}}

\* the configurations (state word, slots, capacity, stride) that have been
\* the active one: the retired ones, which closed_arrays_ keeps, and the
\* current one
ActiveConfigurations ==
    {[state |-> (dyn.closed_arrays[i].offset * Pow2(seqlock_bits)) + (2 * (i - 1)),
      slots |-> dyn.closed_arrays[i].slots,
      capacity |-> dyn.closed_arrays[i].capacity,
      stride |-> dyn.closed_arrays[i].stride] :
        i \in {j \in DOMAIN dyn.closed_arrays : dyn.closed_arrays[j].capacity > 0}}
    \cup
    (IF dyn.dstate % 2 = 0
     THEN {[state |-> dyn.dstate, slots |-> dyn.dslots, capacity |-> dyn.dcapacity,
            stride |-> dyn.dstride]}
     ELSE IF \E t \in Expanding : Top(t).pc \in {"ex_restore", "ex_first",
                                                  "ex_second_pop", "ex_second_push"}
          THEN {[state |-> dyn.dstate - 1, slots |-> dyn.dslots,
                 capacity |-> dyn.dcapacity, stride |-> dyn.dstride]}
          ELSE {})

\* thread t leaves try_seqlock_read_section with true in this step
SectionSucceeds(t) ==
    /\ Top(t).fn \in {"dyn_try_push", "dyn_try_pop"}
    /\ Top(t).pc = "sl_check"
    /\ Len(th'[t]) = Len(th[t])
    /\ th'[t][Len(th'[t])].pc \in {"turn", "trap"}

\* C32: at most one thread at a time is inside a growth step, and it is
\* there exactly while the lock bit is set; every read section that succeeds
\* returns a tuple (state word, slots, capacity, stride) that was the active
\* configuration at one instant, never a mix of the fields of two
\* configurations; and a reader goes on from the first load of the state
\* word only with the lock bit clear.
C32_SeqlockSnapshot ==
    [][/\ Cardinality(Expanding) <= 1
       /\ (Expanding /= {}) <=> (dyn.dstate % 2 = 1)
       /\ \A t \in DOMAIN th :
             /\ SectionSucceeds(t) =>
                   [state |-> Top(t).state, slots |-> Top(t).slots,
                    capacity |-> Top(t).capacity, stride |-> Top(t).stride]
                      \in ActiveConfigurations
             /\ (/\ Top(t).fn \in {"dyn_try_push", "dyn_try_pop"}
                 /\ Top(t).pc = "sl_state"
                 /\ Len(th'[t]) = Len(th[t])
                 /\ th'[t][Len(th'[t])].pc = "sl_slots") =>
                   th'[t][Len(th'[t])].state % 2 = 0]_vars

CurrentView(ticket) ==
    maybe_update_from_closed([ticket |-> ticket, state |-> dyn.dstate,
                              slots |-> dyn.dslots, capacity |-> dyn.dcapacity,
                              stride |-> dyn.dstride])

\* the slot that ticket maps to has been released for its push
Released(ticket) ==
    LET view == CurrentView(ticket)
    IN  turn_of([a |-> view.slots,
                 i |-> dyn_slot_index(ticket - view.offset, view.capacity, view.stride)])
           = enqueue_turn(ticket - view.offset, view.capacity)

\* the driver's frame records, for the checks, the last call, the state word
\* and the depth at the call, and whether the slot of the push ticket was
\* then released
DynSequential(t) ==
    LET f == Top(t)
        seen == [f EXCEPT !.calls = @ + 1, !.before = dyn.dstate,
                          !.depth = push_ticket - pop_ticket,
                          !.released = Released(push_ticket)]
    IN  /\ f.calls < SeqCalls
        /\ \/ th' = Call(t, [seen EXCEPT !.last = "try_push", !.next = @ + 1],
                         DynTryPushFrame(f.next))
           \/ th' = Call(t, [seen EXCEPT !.last = "try_pop"], DynTryPopFrame)
        /\ ret' = [ret EXCEPT ![t] = NoResult]
        /\ UNCHANGED <<queueVars, channelVars, notifyVars, historyVars>>

InitGrowSeq ==
    /\ push_ticket = 0
    /\ pop_ticket = 0
    /\ arr = <<AllocatedSlots(InitialCapacity)>>
    /\ dyn = [dslots |-> 1, dcapacity |-> InitialCapacity,
              dstride |-> compute_stride(InitialCapacity), dstate |-> 0,
              closed_arrays |-> [i \in 1..max_closed_arrays_ |-> closed_array],
              resolved |-> <<>>]
    /\ InitRegistries
    /\ wtr = <<>>
    /\ wstat = <<>>
    /\ th = [t \in SeqThreads |->
                <<[fn |-> "dyn_sequential", calls |-> 0, next |-> 1, last |-> "none",
                   before |-> 0, depth |-> 0, released |-> TRUE]>>]
    /\ ret = [t \in SeqThreads |-> NoResult]
    /\ todo = [t \in SeqThreads |-> <<>>]
    /\ accepted = EmptyBag
    /\ popped = EmptyBag
    /\ NoChannel

NextGrowSeq ==
    \/ \E t \in DOMAIN th : Running(t, "dyn_sequential") /\ DynSequential(t)
    \/ \E t \in DOMAIN th : Running(t, "dyn_try_push") /\ DynTryPush(t)
    \/ \E t \in DOMAIN th : Running(t, "dyn_try_pop") /\ DynTryPop(t)
    \/ \E t \in DOMAIN th : Running(t, "notify") /\ Notify(t)

SpecGrowSeq == InitGrowSeq /\ [][NextGrowSeq]_vars

\* the call of thread t has returned
DynReturned(t, call) ==
    /\ Len(th[t]) = 1
    /\ th[t][1].fn = "dyn_sequential"
    /\ th[t][1].last = call

\* C34: in single-threaded use of the growable queue, a try_push that has
\* performed a growth step returns queue_full, with the depth below the new
\* active capacity and its ticket still served by the retired ring; try_push
\* returns queue_full exactly when the queue holds max_capacity values or
\* the slot its ticket maps to has not been released by try_pop, and success
\* otherwise; and after a try_push that returned queue_full the queue holds
\* a value, which the next try_pop returns.
C34_GrowingPushReturnsFull ==
    \A t \in DOMAIN th :
       /\ DynReturned(t, "try_push") =>
             /\ ret[t].status \in {"success", "queue_full"}
             /\ th[t][1].before /= dyn.dstate =>
                   /\ ret[t].status = "queue_full"
                   /\ push_ticket - pop_ticket < dyn.dcapacity
                   /\ push_ticket < get_offset(dyn.dstate)
                   /\ CurrentView(push_ticket).slots /= dyn.dslots
                   /\ ~Released(push_ticket)
             /\ (ret[t].status = "queue_full")
                   <=> (th[t][1].depth >= max_capacity_ \/ ~th[t][1].released)
             /\ ret[t].status = "queue_full" => push_ticket > pop_ticket
       /\ DynReturned(t, "try_pop") =>
             (ret[t].status = "success") <=> (th[t][1].depth > 0)

\* after the try_push that grew the queue, a second try_push has returned
\* queue_full although the depth is below the active capacity
C34_Witness ==
    \E t \in DOMAIN th :
       /\ DynReturned(t, "try_push")
       /\ ret[t].status = "queue_full"
       /\ get_num_closed(dyn.dstate) >= 1
       /\ th[t][1].before = dyn.dstate
       /\ th[t][1].depth < dyn.dcapacity
       /\ th[t][1].depth < max_capacity_

(***************************************************************************)
(* The keys of the channels of a registry.                                 *)
(***************************************************************************)
\* C35: no two channels of a registry are reserved for the same key
\* (turn_ptr, expected_turn), and every waiter on the list of a channel has
\* the key of the channel, so that the one channel notify locks for a key
\* has every waiter armed with it.
C35_OneBucketPerKey ==
    /\ \A b1, b2 \in Buckets(channels) :
          (/\ b1 /= b2
           /\ b1[1] = b2[1]
           /\ channels[b1[1]][b1[2]].key_tag /= ZeroTag
           /\ channels[b2[1]][b2[2]].key_tag /= ZeroTag) =>
             <<channels[b1[1]][b1[2]].turn_ptr, channels[b1[1]][b1[2]].expected_turn>>
                /= <<channels[b2[1]][b2[2]].turn_ptr, channels[b2[1]][b2[2]].expected_turn>>
    /\ \A b \in Buckets(channels) : \A w \in DOMAIN wtr :
          ListHas(wtr, channels[b[1]][b[2]].head, w, Cardinality(DOMAIN wtr)) =>
             /\ wtr[w].turn_ptr = channels[b[1]][b[2]].turn_ptr
             /\ wtr[w].expected_turn = channels[b[1]][b[2]].expected_turn

(***************************************************************************)
(* Async operations that complete with an error.                           *)
(***************************************************************************)
\* C36: an async push or pop that has completed with canceled, timeout or
\* channel_closed has had no effect on the ring: no try_push of it has
\* enqueued its value and no try_pop of it has removed a value.
C36_ErrorMeansNoEffect ==
    \A o \in DOMAIN ops :
       ops[o].final.status \in {"canceled", "timeout", "channel_closed"} =>
          /\ ~ops[o].effect
          /\ ops[o].kind = "push" => ~BagIn(ops[o].value, accepted)

(***************************************************************************)
(* channel_closed as the last word to consumers.                           *)
(***************************************************************************)
\* some try_pop or async pop of the channel has returned channel_closed
ClosedReported ==
    \/ \E t \in DOMAIN th :
          /\ th[t][1].fn = "channel_thread"
          /\ \E j \in DOMAIN th[t][1].made :
                /\ th[t][1].made[j] = "try_pop"
                /\ IF j < Len(th[t][1].made)
                   THEN th[t][1].got[j] = "channel_closed"
                   ELSE Len(th[t]) = 1 /\ ret[t].status = "channel_closed"
    \/ \E o \in DOMAIN ops : ops[o].kind = "pop" /\ ops[o].final = ChannelClosed

\* a try_pop or an async pop of the channel returns a value in this step
PopGivesValue ==
    \/ \E t \in DOMAIN th :
          /\ PopReturnsNow(t)
          /\ th[t][1].made[Len(th[t][1].made)] = "try_pop"
          /\ ret'[t].status = "success"
    \/ \E o \in DOMAIN ops :
          /\ ops[o].kind = "pop"
          /\ ops[o].final = NoResult
          /\ ops'[o].final.status = "success"

\* C37: once a try_pop or an async pop of a channel has returned
\* channel_closed, no pop of the channel returns a value.
C37_ClosedIsTerminal == [][ClosedReported => ~PopGivesValue]_vars

(***************************************************************************)
(* The channel locks of the registries.                                    *)
(***************************************************************************)
\* the frames of thread t that hold the lock of a channel: arm between
\* find_or_reserve_channel and its unlock_channel, notify between
\* lock_existing_channel and its unlock_channel (disarm takes and releases
\* its lock within one step)
HoldingFrames(t) ==
    {i \in DOMAIN th[t] :
        \/ th[t][i].fn = "arm" /\ th[t][i].pc \in {"check2", "check3"}
        \/ th[t][i].fn = "notify" /\ th[t][i].pc \in {"walk", "xchg", "mark"}}

\* the frames <<t, i>> that hold the lock of channel b = <<r, index>>
HoldersOf(b) ==
    UNION {{<<t, i>> : i \in {j \in HoldingFrames(t) :
                                <<th[t][j].r, th[t][j].index>> = b}} :
           t \in DOMAIN th}

\* C38: no thread holds two channel locks at once; a thread that holds one
\* is in the frame that took it and has called nothing on top of it, so
\* that notify invokes the callbacks of the waiters, and whatever they call
\* of arm, disarm and notify, with no lock of its own held; and a channel's
\* lock flag is set exactly while one frame holds it.
C38_LockDiscipline ==
    /\ \A t \in DOMAIN th :
          /\ Cardinality(HoldingFrames(t)) <= 1
          /\ \A i \in HoldingFrames(t) : i = Len(th[t])
          /\ \A i \in DOMAIN th[t] :
                (th[t][i].fn = "notify" /\ i < Len(th[t])) => th[t][i].pc = "clear"
    /\ \A r \in Registries : \A index \in DOMAIN channels[r] :
          IF channels[r][index].lock
          THEN Cardinality(HoldersOf(<<r, index>>)) = 1
          ELSE HoldersOf(<<r, index>>) = {}
    /\ \A t \in DOMAIN th : \A i \in HoldingFrames(t) :
          /\ th[t][i].index \in DOMAIN channels[th[t][i].r]
          /\ channels[th[t][i].r][th[t][i].index].lock

\* a callback that notify has invoked has called arm, which holds the lock
\* of a channel
C38_Witness ==
    \E t \in DOMAIN th : \E i \in DOMAIN th[t] :
       /\ th[t][i].fn = "notify"
       /\ th[t][i].pc = "clear"
       /\ i < Len(th[t])
       /\ HoldingFrames(t) = {Len(th[t])}
       /\ th[t][Len(th[t])].fn = "arm"


(***************************************************************************)
(* Termination of the calls.  The threads of the registry scenario (two    *)
(* waiters that arm and disarm the same key, one publisher) and of the     *)
(* growable ring (one producer, one consumer) under weak fairness of each  *)
(* thread: a thread that can take a step, and goes on being able to,       *)
(* takes it.  A spin on a lock flag, on notifying or on the seqlock word   *)
(* is a step that waits for the value it needs.                            *)
(***************************************************************************)
FairThreads == NotifyWaiters \cup NotifyPublishers \cup {"p1", "c1"}

\* the registry scenario with the first of its programs
FairPrograms == {program \in NotifyPrograms : Len(program["w1"]) = 1}

InitFair ==
    \/ InitNotify /\ todo \in FairPrograms
    \/ InitGrowRelaxed

\* the steps of thread t
StepFair(t) ==
    \/ Running(t, "waiter") /\ Waiter(t)
    \/ Running(t, "publisher") /\ Publisher(t)
    \/ Running(t, "arm") /\ Arm(t)
    \/ Running(t, "disarm") /\ Disarm(t)
    \/ Running(t, "notify") /\ Notify(t)
    \/ Running(t, "notify_callback") /\ notify_callback(t)
    \/ Running(t, "dyn_producer") /\ Producer(t)
    \/ Running(t, "dyn_consumer") /\ Consumer(t)
    \/ Running(t, "dyn_try_push") /\ DynTryPush(t)
    \/ Running(t, "dyn_try_pop") /\ DynTryPop(t)

NextFair == \E t \in DOMAIN th : StepFair(t)

SpecFair ==
    /\ InitFair
    /\ [][NextFair]_vars
    /\ \A t \in FairThreads : WF_vars(t \in DOMAIN th /\ StepFair(t))

\* thread t is inside a call of try_push, try_pop, arm, notify or disarm
InCall(t) ==
    /\ t \in DOMAIN th
    /\ \E i \in DOMAIN th[t] :
          th[t][i].fn \in {"dyn_try_push", "dyn_try_pop", "arm", "notify", "disarm"}

\* a step that takes the seqlock of the growable ring (try_expand's
\* compare_exchange) or the lock of a channel (lock_channel)
LockTaken ==
    \/ dyn.dstate % 2 = 0 /\ dyn'.dstate % 2 = 1
    \/ \E t \in DOMAIN th :
          /\ th[t] /= <<>>
          /\ th'[t] /= th[t]
          /\ Top(t).fn \in {"arm", "disarm", "notify"}
          /\ Top(t).pc \in {"hint_lock", "match_lock", "empty_lock", "lock"}

MaxStrideCapacity == 26
MaxFirstTicket == 3

StrideFrame(capacity, first) ==
    [fn |-> "tickets", capacity |-> capacity, stride |-> compute_stride(capacity),
     first |-> first, bounded |-> <<>>, growable |-> <<>>]

InitStride ==
    /\ push_ticket = 0
    /\ pop_ticket = 0
    /\ arr = <<>>
    /\ dyn = NoDyn
    /\ InitRegistries
    /\ wtr = <<>>
    /\ wstat = <<>>
    /\ \E capacity \in 1..MaxStrideCapacity : \E first \in 0..MaxFirstTicket :
          th = [q1 |-> <<StrideFrame(capacity, first)>>]
    /\ ret = [q1 |-> NoResult]
    /\ todo = [q1 |-> <<>>]
    /\ accepted = EmptyBag
    /\ popped = EmptyBag
    /\ NoChannel

\* the next ticket is mapped by both rings; capacity + 1 tickets are mapped
MapTicket(t) ==
    LET f == Top(t)
        ticket == f.first + Len(f.bounded)
    IN  /\ Len(f.bounded) <= f.capacity
        /\ th' = Goto(t, [f EXCEPT !.bounded = Append(@, slot_index(ticket)),
                                   !.growable = Append(@, dyn_slot_index(ticket, f.capacity,
                                                                         f.stride))])
        /\ UNCHANGED <<queueVars, channelVars, notifyVars, ret, historyVars>>

NextStride == \E t \in DOMAIN th : Running(t, "tickets") /\ MapTicket(t)

SpecStride == InitStride /\ [][NextStride]_vars

RECURSIVE Gcd(_, _)
Gcd(a, b) == IF b = 0 THEN a ELSE Gcd(b, a % b)

\* the slots of a ring of this capacity
SlotsOf(capacity) == slot_padding..(slot_padding + capacity - 1)

\* tickets that are mapped to one slot are capacity apart, and tickets
\* capacity apart are mapped to one slot
Laps(slots, capacity) ==
    \A i, j \in DOMAIN slots :
        i < j => (slots[i] = slots[j] <=> j - i = capacity)

\* C40: for every capacity c >= 1 compute_stride(c) is coprime to c, and
\* the index mapping of the bounded ring and that of the growable ring send
\* c consecutive tickets to c distinct slots of the ring and the tickets t
\* and t + c to the same slot.
C40_StrideCoprime ==
    \A t \in DOMAIN th :
        Running(t, "tickets") =>
            LET f == Top(t)
            IN  /\ f.stride >= 1
                /\ Gcd(f.stride, f.capacity) = 1
                /\ stride_ = f.stride
                /\ \A i \in DOMAIN f.bounded : f.bounded[i] \in SlotsOf(f.capacity)
                /\ \A i \in DOMAIN f.growable : f.growable[i] \in SlotsOf(f.capacity)
                /\ Laps(f.bounded, f.capacity)
                /\ Laps(f.growable, f.capacity)

\* the tickets t..t + c of a ring whose capacity c is no power of two and
\* whose stride is a prime have been mapped, t + c to the slot of t
C40_Witness ==
    \E t \in DOMAIN th :
       /\ Running(t, "tickets")
       /\ ~is_power_of_two(Top(t).capacity)
       /\ Top(t).stride > 1
       /\ Top(t).first > 0
       /\ Len(Top(t).bounded) = Top(t).capacity + 1
       /\ Top(t).bounded[1] = Top(t).bounded[Top(t).capacity + 1]
       /\ Top(t).growable[1] = Top(t).growable[Top(t).capacity + 1]

====
